---- MODULE Spec2Model ----
(***************************************************************************)
(* Claw-Rubber: retrieval-safety pipeline.                                 *)
(*                                                                         *)
(* Strings that the code inspects character by character (host names and   *)
(* domain rules) are sequences of one-character strings.  IP addresses are *)
(* sequences of 16-bit groups (2 groups for IPv4, 8 for IPv6), because the *)
(* 32- and 128-bit values of src/lib/network.ts do not fit a TLC integer.  *)
(***************************************************************************)
EXTENDS Integers, Sequences, FiniteSets, TLC

(***************************************************************************)
(* Bounds of the model.                                                    *)
(***************************************************************************)
MaxRequests == 2

(***************************************************************************)
(* lib/domain-policy.ts                                                    *)
(***************************************************************************)
Lower(c) ==
  CASE c = "S" -> "s"
    [] c = "E" -> "e"
    [] c = "D" -> "d"
    [] OTHER -> c

toLowerCase(s) == [k \in 1..Len(s) |-> Lower(s[k])]

RECURSIVE trimStart(_)
trimStart(s) == IF s # <<>> /\ Head(s) = " " THEN trimStart(Tail(s)) ELSE s

RECURSIVE trimEnd(_)
trimEnd(s) ==
  IF s # <<>> /\ s[Len(s)] = " " THEN trimEnd(SubSeq(s, 1, Len(s) - 1)) ELSE s

trim(s) == trimEnd(trimStart(s))

RECURSIVE stripLeadingDots(_)
stripLeadingDots(s) ==
  IF s # <<>> /\ Head(s) = "." THEN stripLeadingDots(Tail(s)) ELSE s

RECURSIVE stripTrailingDots(_)
stripTrailingDots(s) ==
  IF s # <<>> /\ s[Len(s)] = "."
    THEN stripTrailingDots(SubSeq(s, 1, Len(s) - 1))
    ELSE s

normalizeDomain(domain) ==
  stripTrailingDots(stripLeadingDots(toLowerCase(trim(domain))))

endsWith(s, t) ==
  /\ Len(t) <= Len(s)
  /\ SubSeq(s, Len(s) - Len(t) + 1, Len(s)) = t

hostMatchesRuleNoNormalize(host, rule) ==
  host = rule \/ endsWith(host, <<".">> \o rule)

hostMatchesRule(host, rule) ==
  LET normalizedHost == normalizeDomain(host)
      normalizedRule == normalizeDomain(rule)
  IN  normalizedHost = normalizedRule
        \/ endsWith(normalizedHost, <<".">> \o normalizedRule)

\* The lists are iterated in order and the first match wins; only the action
\* and the kind of reason are kept (the reason text names the matching rule).
evaluateDomainPolicyAllowFirst(host, allowlist, blocklist) ==
  LET domain == normalizeDomain(host)
  IN  IF \E allowed \in allowlist : hostMatchesRule(domain, allowed)
        THEN [action |-> "allow-bypass", reason |-> "Domain matched allowlist rule"]
        ELSE IF \E blocked \in blocklist : hostMatchesRule(domain, blocked)
          THEN [action |-> "block", reason |-> "Domain matched blocklist rule"]
          ELSE [action |-> "inspect", reason |-> "none"]

evaluateDomainPolicy(host, allowlist, blocklist) ==
  LET domain == normalizeDomain(host)
  IN  IF \E blocked \in blocklist : hostMatchesRule(domain, blocked)
        THEN [action |-> "block", reason |-> "Domain matched blocklist rule"]
        ELSE IF \E allowed \in allowlist : hostMatchesRule(domain, allowed)
          THEN [action |-> "allow-bypass", reason |-> "Domain matched allowlist rule"]
          ELSE [action |-> "inspect", reason |-> "none"]

(***************************************************************************)
(* lib/network.ts                                                          *)
(***************************************************************************)
Pow2(n) == IF n = 0 THEN 1 ELSE 2 ^ n

Quad(a, b, c, d) == <<a * 256 + b, c * 256 + d>>

\* [family, groups, prefix]: the parsed CIDR; mask and network are the
\* leading `prefix` bits of `groups`.
BLOCKED_IPV4_CIDRS ==
  { [family |-> 4, groups |-> Quad(0, 0, 0, 0), prefix |-> 8],
    [family |-> 4, groups |-> Quad(10, 0, 0, 0), prefix |-> 8],
    [family |-> 4, groups |-> Quad(100, 64, 0, 0), prefix |-> 10],
    [family |-> 4, groups |-> Quad(127, 0, 0, 0), prefix |-> 8],
    [family |-> 4, groups |-> Quad(169, 254, 0, 0), prefix |-> 16],
    [family |-> 4, groups |-> Quad(172, 16, 0, 0), prefix |-> 12],
    [family |-> 4, groups |-> Quad(192, 0, 0, 0), prefix |-> 24],
    [family |-> 4, groups |-> Quad(192, 0, 2, 0), prefix |-> 24],
    [family |-> 4, groups |-> Quad(192, 168, 0, 0), prefix |-> 16],
    [family |-> 4, groups |-> Quad(198, 18, 0, 0), prefix |-> 15],
    [family |-> 4, groups |-> Quad(198, 51, 100, 0), prefix |-> 24],
    [family |-> 4, groups |-> Quad(203, 0, 113, 0), prefix |-> 24],
    [family |-> 4, groups |-> Quad(224, 0, 0, 0), prefix |-> 4],
    [family |-> 4, groups |-> Quad(240, 0, 0, 0), prefix |-> 4] }

BLOCKED_IPV6_CIDRS ==
  { [family |-> 6, groups |-> <<0, 0, 0, 0, 0, 0, 0, 0>>, prefix |-> 128],
    [family |-> 6, groups |-> <<0, 0, 0, 0, 0, 0, 0, 1>>, prefix |-> 128],
    [family |-> 6, groups |-> <<64512, 0, 0, 0, 0, 0, 0, 0>>, prefix |-> 7],
    [family |-> 6, groups |-> <<65152, 0, 0, 0, 0, 0, 0, 0>>, prefix |-> 10],
    [family |-> 6, groups |-> <<65280, 0, 0, 0, 0, 0, 0, 0>>, prefix |-> 8],
    [family |-> 6, groups |-> <<8193, 3512, 0, 0, 0, 0, 0, 0>>, prefix |-> 32] }

\* Number of bits of group k (1-based) that a prefix of `prefix` bits covers.
GroupBits(prefix, k) ==
  LET rest == prefix - 16 * (k - 1)
  IN  IF rest <= 0 THEN 0 ELSE IF rest >= 16 THEN 16 ELSE rest

cidrContains(range, value) ==
  IF range.prefix = 0
    THEN TRUE
    ELSE \A k \in 1..Len(value) :
           value[k] \div Pow2(16 - GroupBits(range.prefix, k))
             = range.groups[k] \div Pow2(16 - GroupBits(range.prefix, k))

\* parseIp on an address already split into groups: an IPv6 address whose
\* upper 96 bits are 0:0:0:0:0:ffff carries an IPv4 address in its last 32.
ipv4Mapped(ip) ==
  IF ip.family = 6
       /\ \A k \in 1..5 : ip.groups[k] = 0
       /\ ip.groups[6] = 65535
    THEN <<ip.groups[7], ip.groups[8]>>
    ELSE <<>>

isPrivateIpNoMapped(ip) ==
  IF ~ip.valid
    THEN TRUE
    ELSE IF ip.family = 4
      THEN \E range \in BLOCKED_IPV4_CIDRS : cidrContains(range, ip.groups)
      ELSE \E range \in BLOCKED_IPV6_CIDRS : cidrContains(range, ip.groups)

isPrivateIp(ip) ==
  IF ~ip.valid
    THEN TRUE
    ELSE IF ip.family = 4
      THEN \E range \in BLOCKED_IPV4_CIDRS : cidrContains(range, ip.groups)
      ELSE IF ipv4Mapped(ip) # <<>>
        THEN \E range \in BLOCKED_IPV4_CIDRS : cidrContains(range, ipv4Mapped(ip))
        ELSE \E range \in BLOCKED_IPV6_CIDRS : cidrContains(range, ip.groups)

(***************************************************************************)
(* The environment: host names, what they are (IP literal or DNS name) and *)
(* what DNS answers for them.                                              *)
(***************************************************************************)
HostSafe == <<"s">>
HostDocs == <<"d", ".", "s">>
HostEvil == <<"e">>
HostPrivate == <<"p">>
HostMapped == <<"m">>
HostLiteral == <<"1">>
HostUnresolved == <<"u">>

Hosts ==
  {HostSafe, HostDocs, HostEvil, HostPrivate, HostMapped, HostLiteral,
   HostUnresolved}

IpV4(a, b, c, d) == [family |-> 4, groups |-> Quad(a, b, c, d), valid |-> TRUE]
IpV6(groups) == [family |-> 6, groups |-> groups, valid |-> TRUE]

\* isIP(host) # 0, and the address the literal denotes.
IsIpLiteral(host) == host = HostLiteral
LiteralAddress(host) == IpV4(169, 254, 169, 254)

\* dns lookup(host, {all: true}).
lookup(host) ==
  CASE host = HostSafe -> {IpV4(93, 184, 216, 34)}
    [] host = HostDocs -> {IpV4(93, 184, 216, 35), IpV6(<<9734, 18176, 0, 0, 0, 0, 0, 4369>>)}
    [] host = HostEvil -> {IpV4(8, 8, 4, 4)}
    [] host = HostPrivate -> {IpV4(93, 184, 216, 34), IpV4(10, 0, 0, 1)}
    [] host = HostMapped -> {IpV6(<<0, 0, 0, 0, 0, 65535, 32512, 1>>)}
    [] OTHER -> {}

\* TRUE when assertPublicHost(host) returns, FALSE when it throws.
assertPublicHostLiteralOnly(host) ==
  IF IsIpLiteral(host) THEN ~isPrivateIp(LiteralAddress(host)) ELSE TRUE

assertPublicHost(host) ==
  IF IsIpLiteral(host)
    THEN ~isPrivateIp(LiteralAddress(host))
    ELSE /\ lookup(host) # {}
         /\ \A resolved \in lookup(host) : ~isPrivateIp(resolved)

\* Reference classification of the hosts, written down independently of the
\* CIDR arithmetic: the hosts that are, or resolve to, a blocked address.
NonPublicHosts == {HostPrivate, HostMapped, HostLiteral}

Url(protocol, host) == [protocol |-> protocol, host |-> host]
Urls == [protocol : {"https", "http"}, host : Hosts]
NoUrl == [protocol |-> "none", host |-> <<>>]

(***************************************************************************)
(* config.ts: profiles and the configuration snapshot.                     *)
(***************************************************************************)
ProfileSettings(profile) ==
  CASE profile = "baseline" ->
         [mediumThreshold |-> 8, blockThreshold |-> 14, maxExtractedChars |-> 22000,
          maxRedirects |-> 4]
    [] profile = "strict" ->
         [mediumThreshold |-> 6, blockThreshold |-> 10, maxExtractedChars |-> 16000,
          maxRedirects |-> 3]
    [] OTHER ->
         [mediumThreshold |-> 4, blockThreshold |-> 7, maxExtractedChars |-> 10000,
          maxRedirects |-> 2]

\* config.search: the strategy and the primary provider of the search.
Providers == {"brave", "searxng"}
SearchSettings == [strategy : {"disabled", "single", "fallback"}, primary : Providers]
DefaultSearch == [strategy |-> "single", primary |-> "brave"]

\* The configurations the pipeline is checked under: the policy settings vary.
\* With these static lists and the runtime entries that the requests can add,
\* a host is allowlisted only (s), on both lists (d.s), or on neither, on the
\* runtime allowlist, on the runtime blocklist or on both (e).
Configs ==
  [ profile : {"paranoid"},
    allowlistDomains : {{HostSafe}},
    blocklistDomains : {{HostDocs}},
    websiteRendererBackend : {"none"},
    fallbackToHttp : {TRUE},
    failClosed : BOOLEAN,
    llmJudgeEnabled : BOOLEAN,
    exposeSafeContentUrls : BOOLEAN,
    search : {DefaultSearch} ]

\* The configurations the content fetcher is checked under: the renderer
\* settings and the redirect cap vary.
FetcherConfigs ==
  [ profile : {"paranoid", "strict"},
    allowlistDomains : {{}},
    blocklistDomains : {{}},
    websiteRendererBackend : {"none", "browserless"},
    fallbackToHttp : BOOLEAN,
    failClosed : {TRUE},
    llmJudgeEnabled : {FALSE},
    exposeSafeContentUrls : {TRUE},
    search : {DefaultSearch} ]

\* The configurations the search route is checked under: the search settings
\* vary.
SearchConfigs ==
  [ profile : {"paranoid"},
    allowlistDomains : {{HostSafe}},
    blocklistDomains : {{HostDocs}},
    websiteRendererBackend : {"none"},
    fallbackToHttp : {TRUE},
    failClosed : {TRUE},
    llmJudgeEnabled : {FALSE},
    exposeSafeContentUrls : {TRUE},
    search : SearchSettings ]

(***************************************************************************)
(* Pages.  A page is known by the length of its sanitized text and by what *)
(* the scorer finds in the part of it that is scored.                      *)
(***************************************************************************)
FLAGGED_CONTENT_MAX == 30000

Pages ==
  { [textLen |-> 50, score |-> 0, flags |-> <<>>, allowSignals |-> <<"language_exception">>],
    [textLen |-> 12000, score |-> 5, flags |-> <<"tool_abuse", "encoding_obfuscation">>,
     allowSignals |-> <<>>],
    [textLen |-> 40000, score |-> 8, flags |-> <<"instruction_override", "prompt_exfiltration">>,
     allowSignals |-> <<>>] }

NoPage == [textLen |-> 0, score |-> 0, flags |-> <<>>, allowSignals |-> <<>>]

Min(a, b) == IF a < b THEN a ELSE b

\* services/sanitizer.ts: texts are prefixes of the page's sanitized text and
\* are represented by their length.
sanitizeToText(page, maxChars) ==
  IF maxChars < page.textLen THEN maxChars ELSE page.textLen

NoMaxChars == -1

\* A length policy that also reports truncation when the content has exactly
\* maxChars characters.
applyMaxCharsStrict(contentLen, maxChars) ==
  IF maxChars = NoMaxChars
    THEN [content |-> contentLen, truncated |-> FALSE]
    ELSE IF contentLen < maxChars
      THEN [content |-> contentLen, truncated |-> FALSE]
      ELSE [content |-> Min(contentLen, maxChars), truncated |-> TRUE]

applyMaxChars(contentLen, maxChars) ==
  IF maxChars = NoMaxChars
    THEN [content |-> contentLen, truncated |-> FALSE]
    ELSE IF maxChars < 1
      THEN [content |-> 0, truncated |-> contentLen > 0]
      ELSE IF contentLen <= maxChars
        THEN [content |-> contentLen, truncated |-> FALSE]
        ELSE [content |-> maxChars, truncated |-> TRUE]

\* MAX_SAFE_INTEGER exceeds every text length, so the text mode keeps the
\* whole sanitized text; the markdown conversion is taken to preserve length.
extractContent(page, mode, maxChars) == applyMaxChars(page.textLen, maxChars)

\* services/injection-rules.ts, as seen by the pipeline.
scorePromptInjection(page) ==
  [score |-> page.score, flags |-> page.flags, allowSignals |-> page.allowSignals]

(***************************************************************************)
(* services/policy.ts                                                      *)
(***************************************************************************)
NoJudge == [label |-> "none", confidence |-> 0]

\* confidence in hundredths
JudgeResults ==
  { [label |-> "benign", confidence |-> 90],
    [label |-> "suspicious", confidence |-> 50],
    [label |-> "suspicious", confidence |-> 90],
    [label |-> "malicious", confidence |-> 50] }

JudgeFlag(judgeResult) ==
  CASE judgeResult.label = "benign" -> "llm_judge:benign"
    [] judgeResult.label = "suspicious" -> "llm_judge:suspicious"
    [] OTHER -> "llm_judge:malicious"

decidePolicyBypassKeepsScore(config, initialScore, initialFlags, domainAction, domainReason, judgeResult) ==
  LET settings == ProfileSettings(config.profile)
      flags == IF judgeResult # NoJudge
                 THEN Append(initialFlags, JudgeFlag(judgeResult))
                 ELSE initialFlags
  IN  IF domainAction = "block"
        THEN [decision |-> "block", score |-> initialScore,
              flags |-> Append(initialFlags, "domain_blocklist"),
              reason |-> IF domainReason = "none" THEN "Domain is blocklisted" ELSE domainReason,
              bypassed |-> FALSE]
      ELSE IF domainAction = "allow-bypass"
        THEN [decision |-> "allow", score |-> initialScore,
              flags |-> Append(initialFlags, "domain_allowlist_bypass"),
              reason |-> domainReason, bypassed |-> TRUE]
      ELSE IF judgeResult # NoJudge /\ judgeResult.label = "malicious"
        THEN [decision |-> "block", score |-> initialScore, flags |-> flags,
              reason |-> "LLM judge labeled malicious", bypassed |-> FALSE]
      ELSE IF judgeResult # NoJudge /\ judgeResult.label = "suspicious"
                /\ judgeResult.confidence >= 75
        THEN [decision |-> "block", score |-> initialScore, flags |-> flags,
              reason |-> "LLM judge labeled suspicious with confidence", bypassed |-> FALSE]
      ELSE IF initialScore >= settings.blockThreshold
        THEN [decision |-> "block", score |-> initialScore, flags |-> flags,
              reason |-> "Rule score >= block threshold", bypassed |-> FALSE]
      ELSE IF config.failClosed /\ initialScore >= settings.mediumThreshold
        THEN [decision |-> "block", score |-> initialScore, flags |-> flags,
              reason |-> "Fail-closed: rule score >= medium threshold", bypassed |-> FALSE]
      ELSE [decision |-> "allow", score |-> initialScore, flags |-> flags,
            reason |-> "none", bypassed |-> FALSE]

decidePolicyFailClosedAtMedium(config, initialScore, initialFlags, domainAction, domainReason, judgeResult) ==
  LET settings == ProfileSettings(config.profile)
      flags == IF judgeResult # NoJudge
                 THEN Append(initialFlags, JudgeFlag(judgeResult))
                 ELSE initialFlags
  IN  IF domainAction = "block"
        THEN [decision |-> "block", score |-> initialScore,
              flags |-> Append(initialFlags, "domain_blocklist"),
              reason |-> IF domainReason = "none" THEN "Domain is blocklisted" ELSE domainReason,
              bypassed |-> FALSE]
      ELSE IF domainAction = "allow-bypass"
        THEN [decision |-> "allow", score |-> 0, flags |-> <<"domain_allowlist_bypass">>,
              reason |-> domainReason, bypassed |-> TRUE]
      ELSE IF judgeResult # NoJudge /\ judgeResult.label = "malicious"
        THEN [decision |-> "block", score |-> initialScore, flags |-> flags,
              reason |-> "LLM judge labeled malicious", bypassed |-> FALSE]
      ELSE IF judgeResult # NoJudge /\ judgeResult.label = "suspicious"
                /\ judgeResult.confidence >= 75
        THEN [decision |-> "block", score |-> initialScore, flags |-> flags,
              reason |-> "LLM judge labeled suspicious with confidence", bypassed |-> FALSE]
      ELSE IF initialScore >= settings.blockThreshold
        THEN [decision |-> "block", score |-> initialScore, flags |-> flags,
              reason |-> "Rule score >= block threshold", bypassed |-> FALSE]
      ELSE IF config.failClosed /\ initialScore = settings.mediumThreshold
        THEN [decision |-> "block", score |-> initialScore, flags |-> flags,
              reason |-> "Fail-closed: rule score >= medium threshold", bypassed |-> FALSE]
      ELSE [decision |-> "allow", score |-> initialScore, flags |-> flags,
            reason |-> "none", bypassed |-> FALSE]

decidePolicy(config, initialScore, initialFlags, domainAction, domainReason, judgeResult) ==
  LET settings == ProfileSettings(config.profile)
      flags == IF judgeResult # NoJudge
                 THEN Append(initialFlags, JudgeFlag(judgeResult))
                 ELSE initialFlags
  IN  IF domainAction = "block"
        THEN [decision |-> "block", score |-> initialScore,
              flags |-> Append(initialFlags, "domain_blocklist"),
              reason |-> IF domainReason = "none" THEN "Domain is blocklisted" ELSE domainReason,
              bypassed |-> FALSE]
      ELSE IF domainAction = "allow-bypass"
        THEN [decision |-> "allow", score |-> 0, flags |-> <<"domain_allowlist_bypass">>,
              reason |-> domainReason, bypassed |-> TRUE]
      ELSE IF judgeResult # NoJudge /\ judgeResult.label = "malicious"
        THEN [decision |-> "block", score |-> initialScore, flags |-> flags,
              reason |-> "LLM judge labeled malicious", bypassed |-> FALSE]
      ELSE IF judgeResult # NoJudge /\ judgeResult.label = "suspicious"
                /\ judgeResult.confidence >= 75
        THEN [decision |-> "block", score |-> initialScore, flags |-> flags,
              reason |-> "LLM judge labeled suspicious with confidence", bypassed |-> FALSE]
      ELSE IF initialScore >= settings.blockThreshold
        THEN [decision |-> "block", score |-> initialScore, flags |-> flags,
              reason |-> "Rule score >= block threshold", bypassed |-> FALSE]
      ELSE IF config.failClosed /\ initialScore >= settings.mediumThreshold
        THEN [decision |-> "block", score |-> initialScore, flags |-> flags,
              reason |-> "Fail-closed: rule score >= medium threshold", bypassed |-> FALSE]
      ELSE [decision |-> "allow", score |-> initialScore, flags |-> flags,
            reason |-> "none", bypassed |-> FALSE]

(***************************************************************************)
(* services/fetch-processing.ts: classifiers                               *)
(***************************************************************************)
Includes(seq, x) == \E k \in 1..Len(seq) : seq[k] = x

classifyBlockedByIgnoresDecision(decision, reason, flags, domainAction) ==
  IF domainAction = "block" \/ Includes(flags, "domain_blocklist") THEN "domain-policy"
  ELSE IF reason = "Fail-closed: rule score >= medium threshold" THEN "fail-closed"
  ELSE IF reason = "Rule score >= block threshold" THEN "rule-threshold"
  ELSE IF (\E k \in 1..Len(flags) :
             flags[k] \in {"llm_judge:benign", "llm_judge:suspicious", "llm_judge:malicious"})
          \/ reason \in {"LLM judge labeled malicious",
                         "LLM judge labeled suspicious with confidence"}
    THEN "llm-judge"
  ELSE "policy"

classifyBlockedBy(decision, reason, flags, domainAction) ==
  IF decision # "block" THEN "null"
  ELSE IF domainAction = "block" \/ Includes(flags, "domain_blocklist") THEN "domain-policy"
  ELSE IF reason = "Fail-closed: rule score >= medium threshold" THEN "fail-closed"
  ELSE IF reason = "Rule score >= block threshold" THEN "rule-threshold"
  ELSE IF (\E k \in 1..Len(flags) :
             flags[k] \in {"llm_judge:benign", "llm_judge:suspicious", "llm_judge:malicious"})
          \/ reason \in {"LLM judge labeled malicious",
                         "LLM judge labeled suspicious with confidence"}
    THEN "llm-judge"
  ELSE "policy"

classifyAllowedBy(decision, bypassed, allowSignals) ==
  IF decision # "allow" THEN "null"
  ELSE IF bypassed THEN "domain-allowlist-bypass"
  ELSE IF Includes(allowSignals, "language_exception") THEN "language-exception"
  ELSE "null"

(***************************************************************************)
(* State.                                                                  *)
(***************************************************************************)
VARIABLES
  cfg,              \* the configuration snapshot, immutable after load
  runtimeAllow,     \* table runtime_allowlist_domains
  runtimeBlock,     \* table runtime_blocklist_domains
  searchResults,    \* table search_results_cache
  fetchEvents,      \* table fetch_events, in insertion order (index = id)
  flaggedPayloads,  \* table flagged_payloads, in insertion order
  req,              \* the /v1/fetch or /v1/web-fetch request being processed
  fetcher,          \* the fetchPage call of that request
  resp,             \* the last HTTP response written
  search,           \* the /v1/search request being processed
  started           \* number of requests accepted so far

pipelineVars ==
  <<cfg, runtimeAllow, runtimeBlock, searchResults, fetchEvents, flaggedPayloads,
    req, fetcher, resp, search, started>>

\* class RateLimiterQueue
VARIABLES
  limiter,          \* the options: requestsPerSecond and maxQueued
  queue,            \* the waiting items, oldest first
  isRunning,
  nextAvailableAt,
  clock,            \* what now() answers, in ms
  pump,             \* where the pump is suspended, and on what
  tasks,            \* per submitted task: its state
  dispatched,       \* the dispatches so far, in order
  calls             \* BraveClient: the webSearch calls and where each stands

queueVars ==
  <<limiter, queue, isRunning, nextAvailableAt, clock, pump, tasks, dispatched, calls>>

(***************************************************************************)
(* db.ts                                                                   *)
(***************************************************************************)
getEffectiveAllowlist(staticAllowlist) ==
  {normalizeDomain(domain) : domain \in staticAllowlist} \cup runtimeAllow

getEffectiveBlocklist(staticBlocklist) ==
  {normalizeDomain(domain) : domain \in staticBlocklist} \cup runtimeBlock

stripWildcardPrefix(s) ==
  IF Len(s) >= 2 /\ s[1] = "*" /\ s[2] = "." THEN SubSeq(s, 3, Len(s)) ELSE s

DomainChars == {"s", "d", "e", "p", "m", "u", "x", "1", ".", "-"}

RECURSIVE labelsValid(_, _)
\* walks the labels of `domain`; `start` is TRUE at the first character of a
\* label.  A label is non-empty and neither starts nor ends with "-".
labelsValid(domain, start) ==
  IF domain = <<>>
    THEN ~start
    ELSE IF Head(domain) = "."
      THEN ~start /\ labelsValid(Tail(domain), TRUE)
      ELSE /\ ~(start /\ Head(domain) = "-")
           /\ ~(Head(domain) = "-" /\ (Len(domain) = 1 \/ domain[2] = "."))
           /\ labelsValid(Tail(domain), FALSE)

isValidDomainEntry(domain) ==
  /\ domain # <<>>
  /\ \A k \in 1..Len(domain) : domain[k] \in DomainChars
  /\ Head(domain) # "."
  /\ domain[Len(domain)] # "."
  /\ labelsValid(domain, TRUE)

NoEvent ==
  [run |-> 0, resultId |-> 0, decision |-> "none", score |-> 0, flags |-> <<>>,
   reason |-> "none", blockedBy |-> "null", allowedBy |-> "null",
   domainAction |-> "none", bypassed |-> FALSE]

(***************************************************************************)
(* Requests, fetcher calls and responses.                                  *)
(***************************************************************************)
NoFetched ==
  [finalUrl |-> NoUrl, page |-> NoPage, backendUsed |-> "none", rendered |-> FALSE,
   fallbackUsed |-> FALSE]

IdleReq ==
  [pc |-> "idle", route |-> "none", run |-> 0, eventId |-> 0, url |-> NoUrl,
   domain |-> <<>>, outputMaxChars |-> NoMaxChars, domainAction |-> "none",
   domainReason |-> "none", score |-> 0, flags |-> <<>>, allowSignals |-> <<>>,
   fetched |-> NoFetched, blocklistAtStart |-> {}]

IdleFetcher ==
  [phase |-> "idle", url |-> NoUrl, cur |-> NoUrl, i |-> 0, viaFallback |-> FALSE,
   result |-> NoFetched, error |-> "none",
   \* history of the call, for the properties
   requests |-> 0, contactedUnchecked |-> FALSE, sawNonHttps |-> FALSE,
   rendererFinalUrl |-> NoUrl, rendererFailed |-> FALSE]

NoResp ==
  [route |-> "none", run |-> 0, status |-> 0, decision |-> "none", reason |-> "none",
   score |-> 0, flags |-> <<>>, bypassed |-> FALSE, url |-> NoUrl, finalUrl |-> NoUrl,
   content |-> 0, truncated |-> FALSE, hasSource |-> FALSE, results |-> {},
   \* what the request was and met, for the properties
   domain |-> <<>>, blocklistAtStart |-> {}, fetcherCalled |-> FALSE,
   fetched |-> NoFetched,
   \* /v1/search: meta.provider, meta.fallback_used, and how each provider
   \* that was called answered
   provider |-> "none", fallbackUsed |-> FALSE, upstream |-> <<>>,
   \* whether llmJudge.classify was called and how it ended
   judgeCall |-> "not-called",
   \* /v1/fetch: the result_id of a request answered 404
   resultId |-> 0]

IdleSearch ==
  [pc |-> "idle", run |-> 0, allowlist |-> {}, blocklist |-> {},
   runtimeBlockAtStart |-> {}]

(***************************************************************************)
(* services/content-fetcher.ts                                             *)
(***************************************************************************)
HttpFailureKinds ==
  {"redirect-without-location", "bad-status", "bad-content-type", "body-too-large",
   "timeout"}

\* What one GET of the redirect walk can answer.
HttpResponses ==
  [kind : {"redirect"}, location : Urls, page : {NoPage}]
    \cup [kind : {"ok"}, location : {NoUrl}, page : Pages]
    \cup [kind : HttpFailureKinds, location : {NoUrl}, page : {NoPage}]

\* What browserlessClient.render can answer: it throws, or returns html with
\* a final URL or with none.
RenderOutcomes ==
  [kind : {"throw"}, finalUrl : {NoUrl}, page : {NoPage}]
    \cup [kind : {"rendered"}, finalUrl : Urls \cup {NoUrl}, page : Pages]

Failed(f, error) == [f EXCEPT !.phase = "failed", !.error = error]

\* An exception raised at state f of the call.  Inside the try block of the
\* rendered path it is caught: with fallbackToHttp the call starts over on the
\* plain-HTTP path, otherwise it is rethrown.
ThrowAlwaysFallsBack(f, error) ==
  IF f.phase \in {"resolve", "render"}
    THEN [f EXCEPT !.phase = "http", !.cur = f.url, !.i = 0, !.viaFallback = TRUE,
                   !.requests = 0]
    ELSE Failed(f, error)

Throw(f, error) ==
  IF f.phase \in {"resolve", "render"} /\ cfg.fallbackToHttp
    THEN [f EXCEPT !.phase = "http", !.cur = f.url, !.i = 0, !.viaFallback = TRUE,
                   !.requests = 0]
    ELSE Failed(f, error)

fetchPage(url) ==
  LET f == [IdleFetcher EXCEPT !.url = url, !.cur = url]
  IN  IF url.protocol # "https"
        THEN Failed(f, "Only https URLs are allowed")
        ELSE IF cfg.websiteRendererBackend = "browserless"
          THEN [f EXCEPT !.phase = "resolve"]
          ELSE [f EXCEPT !.phase = "http"]

MaxRedirects == ProfileSettings(cfg.profile).maxRedirects

\* The request of one loop iteration has been issued to f.cur.
Contacted(f) ==
  [f EXCEPT !.requests = f.requests + 1,
            !.contactedUnchecked = f.contactedUnchecked \/ f.cur.host \in NonPublicHosts,
            !.sawNonHttps = f.sawNonHttps \/ f.cur.protocol # "https"]

\* A 3xx answer with a location header, in either walk.
FollowRedirectNoCap(f, location) ==
  LET g == [Contacted(f) EXCEPT !.cur = location,
                               !.sawNonHttps = f.sawNonHttps \/ location.protocol # "https"]
  IN  IF location.protocol # "https"
        THEN Throw(g, "Redirected to non-https URL")
        ELSE IF f.i + 1 > MaxRedirects + 1
          THEN Throw(g, "Too many redirects")
          ELSE [g EXCEPT !.i = f.i + 1]

FollowRedirect(f, location) ==
  LET g == [Contacted(f) EXCEPT !.cur = location,
                               !.sawNonHttps = f.sawNonHttps \/ location.protocol # "https"]
  IN  IF location.protocol # "https"
        THEN Throw(g, "Redirected to non-https URL")
        ELSE IF f.i + 1 > MaxRedirects
          THEN Throw(g, "Too many redirects")
          ELSE [g EXCEPT !.i = f.i + 1]

\* One iteration of the loop of fetchViaHttp.
fetchViaHttpNoHostCheck(f, response) ==
  IF response.kind = "redirect"
      THEN FollowRedirect(f, response.location)
    ELSE IF response.kind = "ok"
      THEN [Contacted(f) EXCEPT
              !.phase = "ok",
              !.result = [finalUrl |-> f.cur, page |-> response.page,
                          backendUsed |-> "http-fetch", rendered |-> FALSE,
                          fallbackUsed |-> f.viaFallback]]
    ELSE Throw(Contacted(f), response.kind)

fetchViaHttp(f, response) ==
  IF ~assertPublicHost(f.cur.host)
    THEN Throw(f, "non-public host")
    ELSE IF response.kind = "redirect"
      THEN FollowRedirect(f, response.location)
    ELSE IF response.kind = "ok"
      THEN [Contacted(f) EXCEPT
              !.phase = "ok",
              !.result = [finalUrl |-> f.cur, page |-> response.page,
                          backendUsed |-> "http-fetch", rendered |-> FALSE,
                          fallbackUsed |-> f.viaFallback]]
    ELSE Throw(Contacted(f), response.kind)

\* One iteration of the loop of resolveFinalUrl: any answer that is not a
\* redirect ends the walk with the current URL, whatever its status.
resolveFinalUrl(f, response) ==
  IF ~assertPublicHost(f.cur.host)
    THEN Throw(f, "non-public host")
    ELSE IF response.kind = "redirect"
      THEN FollowRedirect(f, response.location)
    ELSE IF response.kind \in {"redirect-without-location", "timeout"}
      THEN Throw(Contacted(f), response.kind)
    ELSE [Contacted(f) EXCEPT !.phase = "render"]

\* TRUE when validateFinalUrl(value) returns, FALSE when it throws.
validateFinalUrlProtocolOnly(value) == value.protocol = "https"

validateFinalUrl(value) ==
  value.protocol = "https" /\ assertPublicHost(value.host)

\* browserlessClient.render(resolvedFinalUrl) and the rest of the try block.
renderPage(f, outcome) ==
  LET finalUrl == IF outcome.finalUrl = NoUrl THEN f.cur ELSE outcome.finalUrl
  IN  IF outcome.kind = "throw"
        THEN Throw([f EXCEPT !.rendererFailed = TRUE], "renderer error")
        ELSE IF ~validateFinalUrl(finalUrl)
          THEN Throw([f EXCEPT !.rendererFinalUrl = finalUrl], "invalid final URL")
          ELSE [f EXCEPT
                  !.phase = "ok",
                  !.rendererFinalUrl = finalUrl,
                  !.result = [finalUrl |-> finalUrl, page |-> outcome.page,
                              backendUsed |-> "browserless", rendered |-> TRUE,
                              fallbackUsed |-> FALSE]]

(***************************************************************************)
(* services/fetch-processing.ts: processFetchedPage                        *)
(***************************************************************************)
Settings == ProfileSettings(cfg.profile)

\* The FetchEvent written when the requested domain is blocked.
domainBlockEventAsPolicy(input, domainPolicy) ==
  [run |-> input.run, resultId |-> input.eventId, decision |-> "block", score |-> 0,
   flags |-> <<"domain_blocklist">>, reason |-> domainPolicy.reason,
   blockedBy |-> "policy", allowedBy |-> "null",
   domainAction |-> domainPolicy.action, bypassed |-> FALSE]

domainBlockEvent(input, domainPolicy) ==
  [run |-> input.run, resultId |-> input.eventId, decision |-> "block", score |-> 0,
   flags |-> <<"domain_blocklist">>, reason |-> domainPolicy.reason,
   blockedBy |-> "domain-policy", allowedBy |-> "null",
   domainAction |-> domainPolicy.action, bypassed |-> FALSE]

\* The block result returned without a fetch (no source metadata).
domainBlockResult(domainPolicy) ==
  [kind |-> "block", score |-> 0, flags |-> <<"domain_blocklist">>,
   reason |-> domainPolicy.reason, bypassed |-> FALSE, content |-> 0,
   truncated |-> FALSE, hasSource |-> FALSE, finalUrl |-> NoUrl]

\* The FetchEvent written once the decision is taken.
finalFetchEvent(input, decision, allowedBy) ==
  [run |-> input.run, resultId |-> input.eventId, decision |-> decision.decision,
   score |-> decision.score, flags |-> decision.flags, reason |-> decision.reason,
   blockedBy |-> classifyBlockedBy(decision.decision, decision.reason, decision.flags,
                                   input.domainAction),
   allowedBy |-> allowedBy, domainAction |-> input.domainAction,
   bypassed |-> decision.bypassed]

flaggedPayloadWholePage(input, fetchEventId, decision, scoringText, page) ==
  [run |-> input.run, fetchEventId |-> fetchEventId, resultId |-> input.eventId,
   score |-> decision.score, flags |-> decision.flags, reason |-> decision.reason,
   content |-> page.textLen]

flaggedPayload(input, fetchEventId, decision, scoringText, page) ==
  [run |-> input.run, fetchEventId |-> fetchEventId, resultId |-> input.eventId,
   score |-> decision.score, flags |-> decision.flags, reason |-> decision.reason,
   content |-> Min(scoringText, FLAGGED_CONTENT_MAX)]

processedResult(decision, extracted, fetched) ==
  IF decision.decision = "block"
    THEN [kind |-> "block", score |-> decision.score, flags |-> decision.flags,
          reason |-> IF decision.reason = "none" THEN "Blocked by policy" ELSE decision.reason,
          bypassed |-> FALSE, content |-> 0, truncated |-> FALSE, hasSource |-> TRUE,
          finalUrl |-> fetched.finalUrl]
    ELSE [kind |-> "allow", score |-> decision.score, flags |-> decision.flags,
          reason |-> "none", bypassed |-> decision.bypassed,
          content |-> extracted.content, truncated |-> extracted.truncated,
          hasSource |-> TRUE, finalUrl |-> fetched.finalUrl]

shouldUseJudgeNoUpperBound(domainAction, score) ==
  /\ cfg.llmJudgeEnabled
  /\ domainAction = "inspect"
  /\ score >= Settings.mediumThreshold

shouldUseJudge(domainAction, score) ==
  /\ cfg.llmJudgeEnabled
  /\ domainAction = "inspect"
  /\ score >= Settings.mediumThreshold
  /\ score < Settings.blockThreshold

\* services/llm-judge.ts.  What getModel and generateObject can do: return an
\* object of the schema, or throw (no credentials, network, invalid output).
JudgeOutcomes ==
  [kind : {"object"}, result : JudgeResults] \cup [kind : {"throw"}, result : {NoJudge}]

\* LlmJudge.classify: null (NoJudge) when the judge is disabled or the call
\* fails.
classifyFailureAsMalicious(outcome) ==
  IF ~cfg.llmJudgeEnabled THEN NoJudge
  ELSE IF outcome.kind = "throw" THEN [label |-> "malicious", confidence |-> 0]
  ELSE outcome.result

classify(outcome) ==
  IF ~cfg.llmJudgeEnabled THEN NoJudge
  ELSE IF outcome.kind = "throw" THEN NoJudge
  ELSE outcome.result

(***************************************************************************)
(* routes/fetch.ts and routes/web-fetch.ts: the responses                  *)
(***************************************************************************)
errorResponse(route, run, status) ==
  [NoResp EXCEPT !.route = route, !.run = run, !.status = status]

\* A response builder that puts url / final_url into every payload.
processedResponseAlwaysUrls(route, run, requestedUrl, processed) ==
  [NoResp EXCEPT !.route = route, !.run = run,
                 !.status = IF processed.kind = "block" THEN 422 ELSE 200,
                 !.decision = processed.kind, !.score = processed.score,
                 !.flags = processed.flags, !.hasSource = processed.hasSource,
                 !.url = requestedUrl, !.finalUrl = requestedUrl]

\* Both routes answer a block with 422 and no top-level url / final_url; an
\* allow carries them when exposeSafeContentUrls is set.
processedResponse(route, run, requestedUrl, processed) ==
  IF processed.kind = "block"
    THEN [NoResp EXCEPT !.route = route, !.run = run, !.status = 422,
                        !.decision = "block", !.reason = processed.reason,
                        !.score = processed.score, !.flags = processed.flags,
                        !.hasSource = processed.hasSource]
    ELSE [NoResp EXCEPT !.route = route, !.run = run, !.status = 200,
                        !.decision = "allow", !.score = processed.score,
                        !.flags = processed.flags, !.bypassed = processed.bypassed,
                        !.content = processed.content,
                        !.truncated = processed.truncated, !.hasSource = TRUE,
                        !.url = IF cfg.exposeSafeContentUrls THEN requestedUrl ELSE NoUrl,
                        !.finalUrl = IF cfg.exposeSafeContentUrls
                                       THEN processed.finalUrl ELSE NoUrl]

(***************************************************************************)
(* Inputs of the requests.                                                 *)
(***************************************************************************)
WebFetchMaxChars == {NoMaxChars, 20}

PublicHosts == {HostSafe, HostDocs, HostEvil}

\* URLs handed to /v1/web-fetch and returned by the upstream search.
RequestUrls == [protocol : {"https"}, host : PublicHosts] \cup {Url("http", HostSafe)}

ResultIds == 1..MaxRequests

\* What fetchPage can answer to the pipeline: it throws, or it returns a page
\* from an https URL of a public host (FetcherSpec checks that it returns
\* nothing else).
FetchOutcomes ==
  [kind : {"throw"}, result : {NoFetched}]
    \cup [kind : {"result"},
          result : [finalUrl : [protocol : {"https"}, host : PublicHosts], page : Pages,
                    backendUsed : {"http-fetch"}, rendered : {FALSE},
                    fallbackUsed : {FALSE}]]

\* A search provider answers one result, or fails; the Brave client alone
\* sits behind the rate limiter queue and can fail with QueueOverflowError.
ProviderOutcomes(provider) ==
  [kind : {"results"}, results : {<<url>> : url \in RequestUrls}]
    \cup [kind : {"error"} \cup (IF provider = "brave" THEN {"queue-overflow"} ELSE {}),
          results : {<<>>}]

getFallbackProvider(primary) == IF primary = "brave" THEN "searxng" ELSE "brave"

\* SearchOrchestrator.execute: the provider's answer with its name, or its
\* error.
execute(providerName, outcomes, fallbackUsed) ==
  [kind |-> outcomes[providerName].kind, results |-> outcomes[providerName].results,
   provider |-> providerName, fallbackUsed |-> fallbackUsed,
   primaryError |-> "none", fallbackError |-> "none",
   upstream |-> <<[provider |-> providerName, kind |-> outcomes[providerName].kind]>>]

\* SearchOrchestrator.search, given how each provider would answer: a
\* SearchExecution (kind "results") or the error thrown.
SearchOrchestratorSearch(settings, outcomes) ==
  IF settings.strategy = "disabled"
    THEN [kind |-> "search-disabled", results |-> <<>>, provider |-> "none",
          fallbackUsed |-> FALSE, primaryError |-> "none", fallbackError |-> "none",
          upstream |-> <<>>]
    ELSE LET primary == settings.primary
             fallback == getFallbackProvider(primary)
             first == execute(primary, outcomes, FALSE)
             second == execute(fallback, outcomes, TRUE)
         IN IF settings.strategy = "single" \/ first.kind = "results"
              THEN first
              ELSE IF second.kind = "results"
                     THEN [second EXCEPT !.upstream = first.upstream \o second.upstream]
                     ELSE [kind |-> "fallback-error", results |-> <<>>,
                           provider |-> "none", fallbackUsed |-> FALSE,
                           primaryError |-> first.kind, fallbackError |-> second.kind,
                           upstream |-> first.upstream \o second.upstream]

\* What the awaited searchOrchestrator.search can settle with under the
\* configured settings.
SearchOutcomes ==
  {SearchOrchestratorSearch(cfg.search, outcomes) :
     outcomes \in [brave : ProviderOutcomes("brave"), searxng : ProviderOutcomes("searxng")]}

hasQueueOverflowDirectOnly(error) == error.kind = "queue-overflow"

hasQueueOverflow(error) ==
  \/ error.kind = "queue-overflow"
  \/ /\ error.kind = "fallback-error"
     /\ error.primaryError = "queue-overflow" \/ error.fallbackError = "queue-overflow"

AllowlistInputs == {HostEvil, <<"*", ".", "E", ".">>, <<"-", "e">>, <<"*", ".", ".", "e">>}
BlocklistInputs == {HostEvil, <<" ", ".", "E">>, <<"e", "-">>}

MaxTasks == 3
MaxCalls == 2
MaxIdleClock == 500
MaxClock == 3000
TickMs == 500

Max(a, b) == IF a > b THEN a ELSE b

TaskIds == 1..MaxTasks
CallIds == 1..MaxCalls

\* A webSearch call: its attempt number, the tasks it has submitted to the
\* queue and the statuses it has been answered, one per attempt.
IdleCall ==
  [pc |-> "idle", attempt |-> 0, tasks |-> <<>>, statuses |-> <<>>, wakeAt |-> 0,
   result |-> "none"]

PumpIdle == [pc |-> "idle", wakeAt |-> 0, inflight |-> 0]

\* A queue as its constructor leaves it, and nothing submitted.
NewQueue ==
  /\ queue = <<>>
  /\ isRunning = FALSE
  /\ nextAvailableAt = 0
  /\ clock = 0
  /\ pump = PumpIdle
  /\ tasks = [t \in TaskIds |-> "new"]
  /\ dispatched = <<>>
  /\ calls = [c \in CallIds |-> IdleCall]

(***************************************************************************)
(* The pipeline: one action per step between two awaits.  Requests are     *)
(* taken one at a time (they share nothing but the tables, which they only *)
(* append to); the runtime lists change at any moment of a request.        *)
(***************************************************************************)
Init ==
  /\ cfg \in Configs
  /\ runtimeAllow = {}
  /\ runtimeBlock = {}
  /\ searchResults = {}
  /\ fetchEvents = <<>>
  /\ flaggedPayloads = <<>>
  /\ req = IdleReq
  /\ fetcher = IdleFetcher
  /\ resp = NoResp
  /\ search = IdleSearch
  /\ started = 0
  /\ limiter = [requestsPerSecond |-> 1, maxQueued |-> 1, retryOn429 |-> TRUE,
                retryMax |-> 1]
  /\ NewQueue

\* The properties' record of a response: what the request asked for and met.
Trace(response, input, fetcherCalled) ==
  [response EXCEPT !.domain = input.domain,
                   !.blocklistAtStart = input.blocklistAtStart,
                   !.fetcherCalled = fetcherCalled,
                   !.fetched = input.fetched]

\* processFetchedPage up to its first await: domain policy, then either the
\* block event and result, or the call of fetchPage.
ProcessStart(route, run, eventId, url, domain, outputMaxChars) ==
  LET effectiveAllowlist == getEffectiveAllowlist(cfg.allowlistDomains)
      domainPolicy == evaluateDomainPolicy(domain, effectiveAllowlist, cfg.blocklistDomains)
      input == [IdleReq EXCEPT !.route = route, !.run = run, !.eventId = eventId,
                               !.url = url, !.domain = domain,
                               !.outputMaxChars = outputMaxChars,
                               !.domainAction = domainPolicy.action,
                               !.domainReason = domainPolicy.reason,
                               !.blocklistAtStart = getEffectiveBlocklist(cfg.blocklistDomains)]
  IN  IF domainPolicy.action = "block"
        THEN /\ fetchEvents' = Append(fetchEvents, domainBlockEvent(input, domainPolicy))
             /\ resp' = Trace(processedResponse(route, run, url,
                                                domainBlockResult(domainPolicy)),
                              input, FALSE)
             /\ req' = IdleReq
        ELSE /\ req' = [input EXCEPT !.pc = "fetching"]
             /\ resp' = NoResp
             /\ UNCHANGED fetchEvents

\* A lookup that forgets the expiry column.
getSearchResultIgnoresExpiry(resultId) == {r \in searchResults : r.resultId = resultId}

\* db.getSearchResult: WHERE result_id = ? AND expires_at > now.
getSearchResult(resultId) ==
  {r \in searchResults : r.resultId = resultId /\ r.expiresAt > clock}

handleFetch(resultId) ==
  /\ req.pc = "idle"
  /\ search.pc = "idle"
  /\ started < MaxRequests
  /\ started' = started + 1
  /\ IF getSearchResult(resultId) = {}
       THEN /\ resp' = [errorResponse("fetch", started + 1, 404)
                         EXCEPT !.resultId = resultId]
            /\ req' = IdleReq
            /\ UNCHANGED fetchEvents
       ELSE \E record \in getSearchResult(resultId) :
              ProcessStart("fetch", started + 1, resultId, record.url, record.domain,
                           Settings.maxExtractedChars)
  /\ UNCHANGED queueVars
  /\ UNCHANGED <<cfg, runtimeAllow, runtimeBlock, searchResults, flaggedPayloads,
                 fetcher, search>>

handleWebFetch(targetUrl, maxChars) ==
  /\ req.pc = "idle"
  /\ search.pc = "idle"
  /\ started < MaxRequests
  /\ started' = started + 1
  /\ IF targetUrl.protocol # "https"
       THEN /\ resp' = errorResponse("web-fetch", started + 1, 400)
            /\ req' = IdleReq
            /\ UNCHANGED fetchEvents
       ELSE ProcessStart("web-fetch", started + 1, 100 + started + 1, targetUrl,
                         toLowerCase(targetUrl.host), maxChars)
  /\ UNCHANGED queueVars
  /\ UNCHANGED <<cfg, runtimeAllow, runtimeBlock, searchResults, flaggedPayloads,
                 fetcher, search>>

\* Decision, persistence and response, given the judge's answer (or none).
Complete(input, judge, judgeCall) ==
  LET fetched == input.fetched
      scoringText == sanitizeToText(fetched.page, Settings.maxExtractedChars)
      extracted == extractContent(fetched.page, "text", input.outputMaxChars)
      decision == decidePolicy(cfg, input.score, input.flags, input.domainAction,
                               input.domainReason, judge)
      allowedBy == classifyAllowedBy(decision.decision, decision.bypassed,
                                     input.allowSignals)
      fetchEventId == Len(fetchEvents) + 1
  IN  /\ fetchEvents' = Append(fetchEvents, finalFetchEvent(input, decision, allowedBy))
      /\ flaggedPayloads' =
           IF decision.decision = "block"
             THEN Append(flaggedPayloads,
                         flaggedPayload(input, fetchEventId, decision, scoringText,
                                        fetched.page))
             ELSE flaggedPayloads
      /\ resp' = [Trace(processedResponse(input.route, input.run, input.url,
                                          processedResult(decision, extracted, fetched)),
                        input, TRUE)
                  EXCEPT !.judgeCall = judgeCall]
      /\ req' = IdleReq

handleFetchCatchStoresEvent(input) ==
  /\ resp' = Trace(errorResponse(input.route, input.run, 502), input, TRUE)
  /\ req' = IdleReq
  /\ fetchEvents' = Append(fetchEvents,
                           [NoEvent EXCEPT !.run = input.run, !.resultId = input.eventId,
                                           !.decision = "block", !.reason = "Fetch failed",
                                           !.blockedBy = "policy",
                                           !.domainAction = input.domainAction])
  /\ UNCHANGED flaggedPayloads

\* The catch of handleFetch and of handleWebFetch: the exception of fetchPage
\* crosses processFetchedPage, which stores nothing on that path.
handleFetchCatch(input) ==
  /\ resp' = Trace(errorResponse(input.route, input.run, 502), input, TRUE)
  /\ req' = IdleReq
  /\ UNCHANGED <<fetchEvents, flaggedPayloads>>

\* fetchPage settled.  If it threw, the route's catch answers 502; otherwise
\* the page is sanitized and scored, and the judge is called or the run ends.
FetchReturns(outcome) ==
  /\ req.pc = "fetching"
  /\ IF outcome.kind = "throw"
       THEN handleFetchCatch(req)
       ELSE LET scored == IF req.domainAction = "inspect"
                            THEN scorePromptInjection(outcome.result.page)
                            ELSE [score |-> 0, flags |-> <<>>, allowSignals |-> <<>>]
                input == [req EXCEPT !.score = scored.score, !.flags = scored.flags,
                                     !.allowSignals = scored.allowSignals,
                                     !.fetched = outcome.result]
            IN  IF shouldUseJudge(input.domainAction, input.score)
                  THEN /\ req' = [input EXCEPT !.pc = "judge"]
                       /\ UNCHANGED <<fetchEvents, flaggedPayloads, resp>>
                  ELSE Complete(input, NoJudge, "not-called")
  /\ UNCHANGED queueVars
  /\ UNCHANGED <<cfg, runtimeAllow, runtimeBlock, searchResults, fetcher, search, started>>

\* llmJudge.classify returned.
JudgeReturns(outcome) ==
  /\ req.pc = "judge"
  /\ Complete(req, classify(outcome),
              IF outcome.kind = "throw" THEN "failed" ELSE "answered")
  /\ UNCHANGED queueVars
  /\ UNCHANGED <<cfg, runtimeAllow, runtimeBlock, searchResults, fetcher, search, started>>

(***************************************************************************)
(* Runtime lists (db.ts) and routes/search.ts                              *)
(***************************************************************************)
\* An invalid domain throws and stores nothing; a domain already present only
\* has its note and date refreshed.
addRuntimeAllowlistDomain(domain) ==
  LET normalized == stripWildcardPrefix(normalizeDomain(domain))
  IN  /\ runtimeAllow' = IF isValidDomainEntry(normalized)
                           THEN runtimeAllow \cup {normalized}
                           ELSE runtimeAllow
      /\ UNCHANGED queueVars
      /\ UNCHANGED <<cfg, runtimeBlock, searchResults, fetchEvents, flaggedPayloads,
                     req, fetcher, resp, search, started>>

addRuntimeBlocklistDomain(domain) ==
  LET normalized == stripWildcardPrefix(normalizeDomain(domain))
  IN  /\ runtimeBlock' = IF isValidDomainEntry(normalized)
                           THEN runtimeBlock \cup {normalized}
                           ELSE runtimeBlock
      /\ UNCHANGED queueVars
      /\ UNCHANGED <<cfg, runtimeAllow, searchResults, fetchEvents, flaggedPayloads,
                     req, fetcher, resp, search, started>>

\* handleSearch up to the await of the upstream search: the effective lists
\* are read before the upstream call.
handleSearchStart ==
  /\ search.pc = "idle"
  /\ req.pc = "idle"
  /\ started < MaxRequests
  /\ started' = started + 1
  /\ search' = [pc |-> "upstream", run |-> started + 1,
                allowlist |-> getEffectiveAllowlist(cfg.allowlistDomains),
                blocklist |-> getEffectiveBlocklist(cfg.blocklistDomains),
                runtimeBlockAtStart |-> runtimeBlock]
  /\ resp' = NoResp
  /\ UNCHANGED queueVars
  /\ UNCHANGED <<cfg, runtimeAllow, runtimeBlock, searchResults, fetchEvents,
                 flaggedPayloads, req, fetcher>>

\* config.resultTtlMs, in the milliseconds of `clock` (two ticks).
resultTtlMs == 1000

searchRecord(resultId, url, allowlist, blocklist) ==
  [resultId |-> resultId, url |-> url, domain |-> url.host,
   availability |-> IF evaluateDomainPolicy(url.host, allowlist, blocklist).action = "block"
                      THEN "blocked" ELSE "allowed",
   createdAt |-> clock, expiresAt |-> clock + resultTtlMs]

\* The upstream search settled: records are stored and the response written,
\* or the error is mapped to 503 / 502.
handleSearchFinish(outcome) ==
  /\ search.pc = "upstream"
  /\ LET records == {searchRecord(search.run, outcome.results[k], search.allowlist,
                                  search.blocklist) : k \in 1..Len(outcome.results)}
     IN  IF outcome.kind = "results"
           THEN /\ searchResults' = searchResults \cup records
                /\ resp' = [NoResp EXCEPT !.route = "search", !.run = search.run,
                                          !.status = 200, !.results = records,
                                          !.blocklistAtStart = search.runtimeBlockAtStart,
                                          !.provider = outcome.provider,
                                          !.fallbackUsed = outcome.fallbackUsed,
                                          !.upstream = outcome.upstream]
           ELSE /\ resp' = [errorResponse("search", search.run,
                              IF outcome.kind = "search-disabled" \/ hasQueueOverflow(outcome)
                                THEN 503 ELSE 502)
                             EXCEPT !.upstream = outcome.upstream]
                /\ UNCHANGED searchResults
  /\ search' = IdleSearch
  /\ UNCHANGED queueVars
  /\ UNCHANGED <<cfg, runtimeAllow, runtimeBlock, fetchEvents, flaggedPayloads,
                 req, fetcher, started>>

Next ==
  \/ \E resultId \in ResultIds : handleFetch(resultId)
  \/ \E targetUrl \in RequestUrls, maxChars \in WebFetchMaxChars :
       handleWebFetch(targetUrl, maxChars)
  \/ \E outcome \in FetchOutcomes : FetchReturns(outcome)
  \/ \E outcome \in JudgeOutcomes : JudgeReturns(outcome)
  \/ \E domain \in AllowlistInputs : addRuntimeAllowlistDomain(domain)
  \/ \E domain \in BlocklistInputs : addRuntimeBlocklistDomain(domain)
  \/ handleSearchStart
  \/ \E outcome \in SearchOutcomes : handleSearchFinish(outcome)

vars == <<pipelineVars, queueVars>>

Spec == Init /\ [][Next]_vars

\* The search route alone, under every search setting.
SearchInit ==
  /\ cfg \in SearchConfigs
  /\ runtimeAllow = {}
  /\ runtimeBlock = {}
  /\ searchResults = {}
  /\ fetchEvents = <<>>
  /\ flaggedPayloads = <<>>
  /\ req = IdleReq
  /\ fetcher = IdleFetcher
  /\ resp = NoResp
  /\ search = IdleSearch
  /\ started = 0
  /\ limiter = [requestsPerSecond |-> 1, maxQueued |-> 1, retryOn429 |-> TRUE,
                retryMax |-> 1]
  /\ NewQueue

SearchNext ==
  \/ handleSearchStart
  \/ \E outcome \in SearchOutcomes : handleSearchFinish(outcome)
  \/ \E domain \in AllowlistInputs : addRuntimeAllowlistDomain(domain)
  \/ \E domain \in BlocklistInputs : addRuntimeBlocklistDomain(domain)

SearchSpec == SearchInit /\ [][SearchNext]_vars

(***************************************************************************)
(* Properties of the pipeline (Spec).                                      *)
(***************************************************************************)
EventsOfRun(run) == {k \in 1..Len(fetchEvents) : fetchEvents[k].run = run}
PayloadsOfRun(run) == {k \in 1..Len(flaggedPayloads) : flaggedPayloads[k].run = run}

Processed == resp.route \in {"fetch", "web-fetch"} /\ resp.status \in {200, 422, 502}
Matches(host, list) == \E rule \in list : hostMatchesRule(host, rule)

\* Hosts as written by a caller: the hosts of the environment, d.s in upper
\* case with a trailing dot, a subdomain of e, and a host that only ends in
\* the letters of e.
PolicyHosts == Hosts \cup {<<"D", ".", "S", ".">>, <<"x", ".", "e">>, <<"x", "e">>}

\* C1: a host that equals or is a subdomain of a blocklist rule is blocked by
\* evaluateDomainPolicy whatever the allowlist holds, static or runtime
\* entries; no request for a blocklisted domain and no search result of one
\* is let through because of an allowlist entry.  (The evaluation depends on
\* the lists alone, and every pair of lists the program reaches is reached
\* before its first request.)
C1_BlocklistPrecedence ==
  /\ started = 0
       => \A host \in PolicyHosts :
            \A allowlist \in {{}, cfg.allowlistDomains,
                              getEffectiveAllowlist(cfg.allowlistDomains),
                              getEffectiveAllowlist(cfg.allowlistDomains) \cup {host}} :
              \A blocklist \in {cfg.blocklistDomains,
                                getEffectiveBlocklist(cfg.blocklistDomains)} :
                Matches(host, blocklist)
                  => evaluateDomainPolicy(host, allowlist, blocklist).action = "block"
  /\ Processed /\ Matches(resp.domain, cfg.blocklistDomains)
       => resp.status = 422 /\ resp.decision = "block" /\ ~resp.bypassed
  /\ resp.route = "search"
       => \A r \in resp.results :
            Matches(r.domain, cfg.blocklistDomains \cup resp.blocklistAtStart)
              => r.availability = "blocked"

\* C1 witness: a request for d.s, which the allowlist rule s and the blocklist
\* rule d.s both match, has been answered with a block, and the runtime
\* allowlist holds an entry.
C1_Witness ==
  /\ Processed
  /\ resp.domain = HostDocs
  /\ Matches(HostDocs, cfg.allowlistDomains)
  /\ Matches(HostDocs, cfg.blocklistDomains)
  /\ runtimeAllow # {}
  /\ resp.decision = "block"

\* C2: every search and every fetch evaluates the domain policy over the
\* effective lists (static and runtime entries): once a domain is on the
\* runtime blocklist, a later search marks matching hosts blocked and a later
\* /v1/fetch or /v1/web-fetch of a matching host is blocked by domain policy.
C2_EffectiveListsEverywhere ==
  /\ resp.route = "search"
       => \A r \in resp.results :
            Matches(r.domain, cfg.blocklistDomains \cup resp.blocklistAtStart)
              => r.availability = "blocked"
  /\ Processed /\ Matches(resp.domain, resp.blocklistAtStart)
       => /\ resp.status = 422
          /\ resp.flags = <<"domain_blocklist">>
          /\ ~resp.fetcherCalled

\* C3: when the fetch ended on a domain other than the requested one and the
\* final domain matches the blocklist, the request ends in a block: 422, no
\* content, no url or final_url, reason "Redirected final URL blocked".
C3_FinalDomainRecheck ==
  (/\ Processed
   /\ resp.fetched # NoFetched
   /\ normalizeDomain(resp.fetched.finalUrl.host) # normalizeDomain(resp.domain)
   /\ Matches(resp.fetched.finalUrl.host, cfg.blocklistDomains))
    => /\ resp.status = 422
       /\ resp.decision = "block"
       /\ resp.reason = "Redirected final URL blocked"
       /\ resp.content = 0
       /\ resp.url = NoUrl
       /\ resp.finalUrl = NoUrl

\* C6: a request whose domain the domain policy blocks stores exactly one
\* FetchEvent (decision block, score 0, flags [domain_blocklist], blockedBy
\* domain-policy), is answered with a block, and never calls the fetcher.
C6_DomainBlock ==
  /\ Processed /\ evaluateDomainPolicy(resp.domain, getEffectiveAllowlist(cfg.allowlistDomains),
                                       cfg.blocklistDomains).action = "block"
       => /\ Cardinality(EventsOfRun(resp.run)) = 1
          /\ \A k \in EventsOfRun(resp.run) :
               /\ fetchEvents[k].decision = "block"
               /\ fetchEvents[k].score = 0
               /\ fetchEvents[k].flags = <<"domain_blocklist">>
               /\ fetchEvents[k].blockedBy = "domain-policy"
          /\ resp.status = 422
          /\ resp.decision = "block"
          /\ ~resp.fetcherCalled
  /\ req.pc # "idle"
       => evaluateDomainPolicy(req.domain, getEffectiveAllowlist(cfg.allowlistDomains),
                               cfg.blocklistDomains).action # "block"

\* C6 witness: a request for the blocklisted d.s has been answered.
C6_Witness ==
  /\ Processed
  /\ resp.domain = HostDocs
  /\ resp.status = 422
  /\ EventsOfRun(resp.run) # {}

\* C7: when fetchPage fails, /v1/fetch and /v1/web-fetch answer 502 and the
\* request has stored no FetchEvent and no FlaggedPayload.
C7_FetcherFailure ==
  /\ (resp.route \in {"fetch", "web-fetch"} /\ resp.fetcherCalled /\ resp.fetched = NoFetched)
       => /\ resp.status = 502
          /\ EventsOfRun(resp.run) = {}
          /\ PayloadsOfRun(resp.run) = {}
  /\ resp.status = 502 /\ resp.route \in {"fetch", "web-fetch"}
       => EventsOfRun(resp.run) = {} /\ PayloadsOfRun(resp.run) = {}

\* C7 witness: the second request failed in the fetcher after the first one
\* had stored an event.
C7_Witness ==
  /\ resp.route \in {"fetch", "web-fetch"}
  /\ resp.fetcherCalled
  /\ resp.fetched = NoFetched
  /\ resp.status = 502
  /\ fetchEvents # <<>>

\* C8: a run in which fetchPage succeeded has stored exactly one FetchEvent,
\* carrying the decision of the response, by the time it is answered; it has
\* stored one FlaggedPayload, linked to that event's id and holding no more
\* than the first 30,000 characters of the scoring text, exactly when the
\* decision is block.
C8_EventAndPayload ==
  (Processed /\ resp.fetcherCalled /\ resp.fetched # NoFetched)
    => /\ Cardinality(EventsOfRun(resp.run)) = 1
       /\ \A k \in EventsOfRun(resp.run) : fetchEvents[k].decision = resp.decision
       /\ resp.decision \in {"allow", "block"}
       /\ Cardinality(PayloadsOfRun(resp.run)) = IF resp.decision = "block" THEN 1 ELSE 0
       /\ \A j \in PayloadsOfRun(resp.run) :
            /\ flaggedPayloads[j].fetchEventId \in EventsOfRun(resp.run)
            /\ flaggedPayloads[j].content <= FLAGGED_CONTENT_MAX
            /\ flaggedPayloads[j].content
                 <= sanitizeToText(resp.fetched.page, Settings.maxExtractedChars)

\* C8 witness: the second run fetched a page and was blocked on its content,
\* after a first run had stored an event of its own.
C8_Witness ==
  /\ Processed
  /\ resp.fetcherCalled
  /\ resp.fetched # NoFetched
  /\ resp.decision = "block"
  /\ PayloadsOfRun(resp.run) # {}
  /\ Len(fetchEvents) = 2

(***************************************************************************)
(* The content fetcher on its own: fetchPage is called with any URL, and   *)
(* every GET and every render answers anything it can answer.              *)
(***************************************************************************)
FetcherInit ==
  /\ cfg \in FetcherConfigs
  /\ runtimeAllow = {}
  /\ runtimeBlock = {}
  /\ searchResults = {}
  /\ fetchEvents = <<>>
  /\ flaggedPayloads = <<>>
  /\ req = IdleReq
  /\ fetcher = IdleFetcher
  /\ resp = NoResp
  /\ search = IdleSearch
  /\ started = 0
  /\ limiter = [requestsPerSecond |-> 1, maxQueued |-> 1, retryOn429 |-> TRUE,
                retryMax |-> 1]
  /\ NewQueue

CallFetchPage(url) ==
  /\ fetcher.phase \in {"idle", "ok", "failed"}
  /\ fetcher' = fetchPage(url)
  /\ UNCHANGED queueVars
  /\ UNCHANGED <<cfg, runtimeAllow, runtimeBlock, searchResults, fetchEvents,
                 flaggedPayloads, req, resp, search, started>>

\* One GET of the walk the call is in.
FetchHop(response) ==
  /\ fetcher.phase \in {"resolve", "http"}
  /\ fetcher' = IF fetcher.phase = "resolve"
                  THEN resolveFinalUrl(fetcher, response)
                  ELSE fetchViaHttp(fetcher, response)
  /\ UNCHANGED queueVars
  /\ UNCHANGED <<cfg, runtimeAllow, runtimeBlock, searchResults, fetchEvents,
                 flaggedPayloads, req, resp, search, started>>

Render(outcome) ==
  /\ fetcher.phase = "render"
  /\ fetcher' = renderPage(fetcher, outcome)
  /\ UNCHANGED queueVars
  /\ UNCHANGED <<cfg, runtimeAllow, runtimeBlock, searchResults, fetchEvents,
                 flaggedPayloads, req, resp, search, started>>

FetcherNext ==
  \/ \E url \in Urls : CallFetchPage(url)
  \/ \E response \in HttpResponses : FetchHop(response)
  \/ \E outcome \in RenderOutcomes : Render(outcome)

FetcherSpec == FetcherInit /\ [][FetcherNext]_vars

(***************************************************************************)
(* Properties of the content fetcher (FetcherSpec).                        *)
(***************************************************************************)
\* The host is an address of the blocked CIDR union, or resolves to one.
InBlockedUnion(host) ==
  IF IsIpLiteral(host)
    THEN isPrivateIp(LiteralAddress(host))
    ELSE \E address \in lookup(host) : isPrivateIp(address)

\* C4: fetchPage returns no result when the host of the requested URL, or of
\* the final URL the renderer returned, is or resolves to an address of the
\* blocked CIDR union (IPv4-mapped IPv6 forms included), whatever the
\* renderer backend and fallbackToHttp are.
C4_SsrfClosure ==
  fetcher.phase = "ok"
    => /\ ~InBlockedUnion(fetcher.url.host)
       /\ fetcher.rendererFinalUrl # NoUrl => ~InBlockedUnion(fetcher.rendererFinalUrl.host)

\* C5: fetchPage returns no result when the requested URL is not https, when
\* a redirect target met in the call is not https, or when the final URL the
\* renderer returned is not https.
C5_OnlyHttps ==
  fetcher.phase = "ok"
    => /\ fetcher.url.protocol = "https"
       /\ ~fetcher.sawNonHttps
       /\ fetcher.rendererFinalUrl # NoUrl => fetcher.rendererFinalUrl.protocol = "https"

(***************************************************************************)
(* The rate limiter queue on its own: tasks are submitted at any moment,   *)
(* each settles at any moment after its dispatch, and the clock advances   *)
(* at any moment.  One action per step of schedule and pump between two    *)
(* awaits.                                                                 *)
(***************************************************************************)
LimiterOptions ==
  [requestsPerSecond : {0, 1, 2}, maxQueued : {0, 1, 2}, retryOn429 : {TRUE},
   retryMax : {1}]

\* An interval with the quotient the wrong way round.
minIntervalMsInverted == Max(1, limiter.requestsPerSecond) \div 1000

minIntervalMs == 1000 \div Max(1, limiter.requestsPerSecond)
maxQueued == Max(1, limiter.maxQueued)

shiftNewest(q) == [next |-> q[Len(q)], rest |-> SubSeq(q, 1, Len(q) - 1)]

\* queue.shift()
shift(q) == [next |-> Head(q), rest |-> Tail(q)]

pumpAlreadyRunningNever == FALSE

\* pump's guard: a pump is already in its loop
pumpAlreadyRunning == isRunning

advanceNextAvailableAtNoInterval(startedAt) == Max(nextAvailableAt, startedAt)

\* this.nextAvailableAt = Math.max(this.nextAvailableAt, startedAt) + this.minIntervalMs
advanceNextAvailableAt(startedAt) == Max(nextAvailableAt, startedAt) + minIntervalMs

\* pump, from the shift to the await of the task.
dispatch(q, ts) ==
  LET item == shift(q)
      startedAt == clock
  IN /\ queue' = item.rest
     /\ nextAvailableAt' = advanceNextAvailableAt(startedAt)
     /\ pump' = [pc |-> "task", wakeAt |-> 0, inflight |-> item.next]
     /\ tasks' = [ts EXCEPT ![item.next] = "running"]
     /\ dispatched' = Append(dispatched, [task |-> item.next, at |-> startedAt,
                                          notBefore |-> nextAvailableAt])
     /\ isRunning' = TRUE

\* A pump that leaves its loop without clearing isRunning.
pumpLoopKeepsRunning(q, ts) ==
  IF q = <<>>
    THEN /\ isRunning' = isRunning
         /\ pump' = PumpIdle
         /\ queue' = q
         /\ tasks' = ts
         /\ UNCHANGED <<nextAvailableAt, dispatched>>
    ELSE LET waitMs == nextAvailableAt - clock
         IN IF waitMs > 0
              THEN /\ isRunning' = TRUE
                   /\ pump' = [pc |-> "sleep", wakeAt |-> clock + waitMs, inflight |-> 0]
                   /\ queue' = q
                   /\ tasks' = ts
                   /\ UNCHANGED <<nextAvailableAt, dispatched>>
              ELSE dispatch(q, ts)

\* pump, from the head of its loop to its next await or to its end.
pumpLoop(q, ts) ==
  IF q = <<>>
    THEN /\ isRunning' = FALSE
         /\ pump' = PumpIdle
         /\ queue' = q
         /\ tasks' = ts
         /\ UNCHANGED <<nextAvailableAt, dispatched>>
    ELSE LET now == clock
             waitMs == nextAvailableAt - now
         IN IF waitMs > 0
              THEN /\ isRunning' = TRUE
                   /\ pump' = [pc |-> "sleep", wakeAt |-> now + waitMs, inflight |-> 0]
                   /\ queue' = q
                   /\ tasks' = ts
                   /\ UNCHANGED <<nextAvailableAt, dispatched>>
              ELSE dispatch(q, ts)

queueIsFullAboveMax == Len(queue) > maxQueued

\* schedule's test: this.queue.length >= this.maxQueued
queueIsFull == Len(queue) >= maxQueued

\* Tasks are numbered in the order of their submission.
enqueue(t) ==
  /\ tasks[t] = "new"
  /\ \A u \in TaskIds : u < t => tasks[u] # "new"
  /\ IF queueIsFull
       THEN /\ tasks' = [tasks EXCEPT ![t] = "overflow"]
            /\ UNCHANGED <<queue, isRunning, nextAvailableAt, pump, dispatched>>
       ELSE LET q == Append(queue, t)
                ts == [tasks EXCEPT ![t] = "queued"]
            IN IF pumpAlreadyRunning
                 THEN /\ queue' = q
                      /\ tasks' = ts
                      /\ UNCHANGED <<isRunning, nextAvailableAt, pump, dispatched>>
                 ELSE pumpLoop(q, ts)

\* schedule(task) called by anyone.
schedule(t) ==
  /\ enqueue(t)
  /\ UNCHANGED <<limiter, clock, calls>>
  /\ UNCHANGED pipelineVars

\* sleep(waitMs) resolves: not before waitMs have passed.
SleepReturns ==
  /\ pump.pc = "sleep"
  /\ clock >= pump.wakeAt
  /\ dispatch(queue, tasks)
  /\ UNCHANGED <<limiter, clock, calls>>
  /\ UNCHANGED pipelineVars

\* The dispatched task settles; the pump resolves or rejects its promise and
\* goes round its loop.
taskSettled(outcome) ==
  /\ pump.pc = "task"
  /\ pumpLoop(queue, [tasks EXCEPT ![pump.inflight] = outcome])

TaskSettles(outcome) ==
  /\ taskSettled(outcome)
  /\ UNCHANGED <<limiter, clock, calls>>
  /\ UNCHANGED pipelineVars

\* Time passes: up to MaxClock, and beyond it for as long as a sleep waits.
Tick ==
  /\ \/ clock < MaxClock
     \/ pump.pc = "sleep" /\ clock < pump.wakeAt
  /\ clock' = clock + TickMs
  /\ UNCHANGED <<limiter, queue, isRunning, nextAvailableAt, pump, tasks, dispatched,
                 calls>>
  /\ UNCHANGED pipelineVars

QueueInit ==
  /\ limiter \in LimiterOptions
  /\ NewQueue
  /\ cfg \in {c \in Configs : c.failClosed /\ c.llmJudgeEnabled /\ c.exposeSafeContentUrls}
  /\ runtimeAllow = {}
  /\ runtimeBlock = {}
  /\ searchResults = {}
  /\ fetchEvents = <<>>
  /\ flaggedPayloads = <<>>
  /\ req = IdleReq
  /\ fetcher = IdleFetcher
  /\ resp = NoResp
  /\ search = IdleSearch
  /\ started = 0

QueueNext ==
  \/ \E t \in TaskIds : schedule(t)
  \/ SleepReturns
  \/ \E outcome \in {"resolved", "rejected"} : TaskSettles(outcome)
  \/ Tick

QueueSpec == QueueInit /\ [][QueueNext]_vars

\* Timers fire, the clock advances and every upstream call settles (fetch
\* resolves or rejects); nothing obliges a caller to submit.
QueueFairSpec ==
  /\ QueueSpec
  /\ WF_vars(SleepReturns)
  /\ WF_vars(\E outcome \in {"resolved", "rejected"} : TaskSettles(outcome))
  /\ WF_vars(Tick)

(***************************************************************************)
(* Properties of the rate limiter queue (QueueSpec).                       *)
(***************************************************************************)
Settled(t) == tasks[t] \in {"resolved", "rejected"}
Started(t) == tasks[t] = "running" \/ Settled(t)
Accepted(t) == tasks[t] \notin {"new", "overflow"}

\* C9: the tasks of the queue run one at a time in the order of their
\* submission: at most one task is running, the dispatches follow the
\* submissions, and a task has started only if every accepted task submitted
\* before it has settled.
C9_OneAtATimeInOrder ==
  /\ Cardinality({t \in TaskIds : tasks[t] = "running"}) <= 1
  /\ \A k \in 1..(Len(dispatched) - 1) : dispatched[k].task < dispatched[k + 1].task
  /\ \A t \in TaskIds, u \in TaskIds :
       (u < t /\ Started(t) /\ Accepted(u)) => Settled(u)

\* C9 witness: the second task is running, after the first one settled, while
\* a third one waits in the queue.
C9_Witness ==
  /\ Len(dispatched) = 2
  /\ pump.pc = "task"
  /\ queue # <<>>
  /\ Settled(dispatched[1].task)
  /\ tasks[dispatched[2].task] = "running"

\* C10: a task is dispatched only when now >= nextAvailableAt, the dispatch
\* sets nextAvailableAt to max(nextAvailableAt, now) + 1000/rps, and two
\* consecutive dispatches are at least 1000/rps ms apart (1000 ms at rps 1).
C10_Pacing ==
  /\ \A k \in 1..Len(dispatched) : dispatched[k].at >= dispatched[k].notBefore
  /\ \A k \in 1..(Len(dispatched) - 1) :
       /\ dispatched[k + 1].at - dispatched[k].at
            >= 1000 \div Max(1, limiter.requestsPerSecond)
       /\ limiter.requestsPerSecond = 1
            => dispatched[k + 1].at - dispatched[k].at >= 1000
  /\ dispatched # <<>>
       => LET last == dispatched[Len(dispatched)]
          IN  nextAvailableAt = Max(last.notBefore, last.at)
                                  + 1000 \div Max(1, limiter.requestsPerSecond)

\* C10 witness: at rps 1 three tasks were dispatched, the second one after a
\* pacing sleep and the third one later than nextAvailableAt asked.
C10_Witness ==
  /\ limiter.requestsPerSecond = 1
  /\ Len(dispatched) = 3
  /\ dispatched[2].notBefore > dispatched[1].at
  /\ dispatched[3].at > dispatched[3].notBefore

Pending == Len(queue) + Cardinality({t \in TaskIds : tasks[t] = "running"})

RejectedNow(t) == tasks[t] = "new" /\ tasks'[t] = "overflow"
SubmittedNow(t) == tasks[t] = "new" /\ tasks'[t] # "new"

\* C11 as stated: a submission is rejected only when more than queueMax tasks
\* are pending (waiting or in flight) at the moment it is submitted.
C11_RejectedOnlyAboveMax ==
  [][\A t \in TaskIds : RejectedNow(t) => Pending > maxQueued]_vars

\* C11, amended: a submission is rejected exactly when queueMax tasks wait in
\* the queue at the moment it is submitted, the task in flight not counted;
\* while no task has finished, the first queueMax+1 submissions are accepted
\* and every later one is rejected; every accepted task eventually settles.
C11_Overflow ==
  /\ [][\A t \in TaskIds :
          SubmittedNow(t) => (tasks'[t] = "overflow" <=> Len(queue) = maxQueued)]_vars
  /\ [](Len(queue) <= maxQueued)
  /\ []((\A u \in TaskIds : ~Settled(u))
          => \A t \in TaskIds :
               tasks[t] # "new" => (tasks[t] = "overflow" <=> t >= maxQueued + 2))
  /\ \A t \in TaskIds : (tasks[t] \in {"queued", "running"}) ~> Settled(t)

\* C11 witness: with queueMax 1 and nothing finished, the first task is in
\* flight, the second waits and the third was rejected.
C11_Witness ==
  /\ maxQueued = 1
  /\ tasks[1] = "running"
  /\ tasks[2] = "queued"
  /\ tasks[3] = "overflow"

(***************************************************************************)
(* BraveClient over the rate limiter queue (ClientSpec): webSearch calls,   *)
(* each of which submits its upstream requests to the queue one attempt at *)
(* a time.                                                                 *)
(***************************************************************************)
NoHeader == -1

\* The answers of the upstream: a response with its status and its two rate
\* limit headers (in seconds), or a network error of fetch.
Headers == {[retryAfter |-> NoHeader, reset |-> NoHeader], [retryAfter |-> 0, reset |-> 2]}
NoHeaders == [retryAfter |-> NoHeader, reset |-> NoHeader]
Responses ==
  {[kind |-> "response", status |-> st, headers |-> NoHeaders] : st \in {200, 500}}
    \cup {[kind |-> "response", status |-> 429, headers |-> h] : h \in Headers}
    \cup {[kind |-> "error", status |-> 0, headers |-> NoHeaders]}

\* jitterMs: Math.floor(random() * 250), random() in [0, 1).
JITTER_MS == 250
Jitters == {0, JITTER_MS - 1}

\* The options the client is checked under: retries off, on with no retry
\* allowed, and on with one retry (the default).
ClientOptions ==
  {[requestsPerSecond |-> 2, maxQueued |-> 1, retryOn429 |-> o[1], retryMax |-> o[2]] :
     o \in {<<FALSE, 1>>, <<TRUE, 0>>, <<TRUE, 1>>}}

maxAttempts == IF limiter.retryOn429 THEN limiter.retryMax + 1 ELSE 1

EPOCH_SECONDS == 1000000000
DEFAULT_RETRY_MS == 1000

\* The wall clock, in epoch seconds, at clock = 0: this.now() is
\* StartEpochSeconds * 1000 + clock.
StartEpochSeconds == EPOCH_SECONDS + 1

\* A delay that reads X-RateLimit-Reset before Retry-After.
computeRetryDelayMsResetFirst(response, jitter) ==
  LET retryAfter == response.headers.retryAfter
      reset == response.headers.reset
  IN IF reset # NoHeader /\ reset > 0
       THEN IF reset > EPOCH_SECONDS
              THEN Max(0, (reset - StartEpochSeconds) * 1000 - clock + jitter)
              ELSE reset * 1000 + jitter
       ELSE IF retryAfter # NoHeader /\ retryAfter > 0
              THEN retryAfter * 1000 + jitter
              ELSE DEFAULT_RETRY_MS + jitter

\* reset * 1000 - this.now() is computed as (reset - StartEpochSeconds) * 1000
\* - clock, the same number within 32 bits.
computeRetryDelayMs(response, jitter) ==
  LET retryAfter == response.headers.retryAfter
      reset == response.headers.reset
  IN IF retryAfter # NoHeader /\ retryAfter > 0
       THEN retryAfter * 1000 + jitter
       ELSE IF reset # NoHeader /\ reset > 0
              THEN IF reset > EPOCH_SECONDS
                     THEN Max(0, (reset - StartEpochSeconds) * 1000 - clock + jitter)
                     ELSE reset * 1000 + jitter
              ELSE DEFAULT_RETRY_MS + jitter

shouldRetryUnbounded(response, attempt) ==
  response.status = 429 /\ limiter.retryOn429

shouldRetry(response, attempt) ==
  response.status = 429 /\ limiter.retryOn429 /\ attempt < maxAttempts

\* One turn of searchWithRetry's loop up to its await: the attempt is handed
\* to limiter.schedule, which rejects at once when the queue is full.
submitAttempt(c, attempt) ==
  \E t \in TaskIds :
    /\ enqueue(t)
    /\ calls' = [calls EXCEPT ![c] =
         [@ EXCEPT !.attempt = attempt,
                   !.tasks = Append(@, t),
                   !.wakeAt = 0,
                   !.pc = IF queueIsFull THEN "failed" ELSE "waiting",
                   !.result = IF queueIsFull THEN "queue-overflow" ELSE "none"]]

\* webSearch(request) is called: the first attempt.  Calls are numbered in
\* the order in which they are made.
webSearch(c) ==
  /\ calls[c].pc = "idle"
  /\ \A d \in CallIds : d < c => calls[d].pc # "idle"
  /\ submitAttempt(c, 1)
  /\ UNCHANGED <<limiter, clock>>
  /\ UNCHANGED pipelineVars

Owner(t) == CHOOSE c \in CallIds : \E k \in 1..Len(calls[c].tasks) : calls[c].tasks[k] = t

\* The upstream answers the request in flight: the pump settles the task and
\* goes round its loop, then searchWithRetry resumes with the response, and
\* webSearch with what searchWithRetry returns.
FetchSettles(response, jitter) ==
  /\ pump.pc = "task"
  /\ LET c == Owner(pump.inflight)
         attempt == calls[c].attempt
     IN /\ taskSettled(IF response.kind = "error" THEN "rejected" ELSE "resolved")
        /\ calls' = [calls EXCEPT ![c] =
             IF response.kind = "error"
               THEN [@ EXCEPT !.pc = "failed", !.result = "fetch-error"]
               ELSE IF shouldRetry(response, attempt)
                      THEN [@ EXCEPT !.pc = "retry-sleep",
                                     !.statuses = Append(@, response.status),
                                     !.wakeAt = clock + computeRetryDelayMs(response, jitter)]
                      ELSE [@ EXCEPT !.pc = IF response.status = 200 THEN "done" ELSE "failed",
                                     !.statuses = Append(@, response.status),
                                     !.result = IF response.status = 200
                                                  THEN "ok" ELSE "http-error"]]
  /\ UNCHANGED <<limiter, clock>>
  /\ UNCHANGED pipelineVars

\* sleep(computeRetryDelayMs(response)) resolves: the next attempt.
RetrySleepReturns(c) ==
  /\ calls[c].pc = "retry-sleep"
  /\ clock >= calls[c].wakeAt
  /\ submitAttempt(c, calls[c].attempt + 1)
  /\ UNCHANGED <<limiter, clock>>
  /\ UNCHANGED pipelineVars

\* Time passes for the client: freely up to MaxIdleClock, and beyond it for
\* as long as a sleep of the pump or of a call waits.
ClientTick ==
  /\ \/ clock < MaxIdleClock
     \/ pump.pc = "sleep" /\ clock < pump.wakeAt
     \/ \E c \in CallIds : calls[c].pc = "retry-sleep" /\ clock < calls[c].wakeAt
  /\ clock' = clock + TickMs
  /\ UNCHANGED <<limiter, queue, isRunning, nextAvailableAt, pump, tasks, dispatched,
                 calls>>
  /\ UNCHANGED pipelineVars

ClientInit ==
  /\ limiter \in ClientOptions
  /\ NewQueue
  /\ cfg \in {c \in Configs : c.failClosed /\ c.llmJudgeEnabled /\ c.exposeSafeContentUrls}
  /\ runtimeAllow = {}
  /\ runtimeBlock = {}
  /\ searchResults = {}
  /\ fetchEvents = <<>>
  /\ flaggedPayloads = <<>>
  /\ req = IdleReq
  /\ fetcher = IdleFetcher
  /\ resp = NoResp
  /\ search = IdleSearch
  /\ started = 0

ClientNext ==
  \/ \E c \in CallIds : webSearch(c)
  \/ \E response \in Responses, jitter \in Jitters : FetchSettles(response, jitter)
  \/ \E c \in CallIds : RetrySleepReturns(c)
  \/ SleepReturns
  \/ ClientTick

ClientSpec == ClientInit /\ [][ClientNext]_vars

(***************************************************************************)
(* Properties of the search client (ClientSpec).                           *)
(***************************************************************************)
Finished(c) == calls[c].pc \in {"done", "failed"}
Requests(c) ==
  Cardinality({k \in 1..Len(dispatched) :
                 \E j \in 1..Len(calls[c].tasks) : calls[c].tasks[j] = dispatched[k].task})

\* C12: a search call retries only after a 429 answer while retryOn429 is
\* true, and at most retryMax times: it submits at most retryMax + 1 upstream
\* requests, every attempt but the first follows a 429, and an answer that is
\* another non-2xx status, a 429 with retryOn429 false, or a 429 to the last
\* allowed attempt fails the call with no further request.
C12_RetryOnly429 ==
  \A c \in CallIds :
    LET call == calls[c]
        n == Len(call.statuses)
    IN /\ Len(call.tasks) <= limiter.retryMax + 1
       /\ Requests(c) <= Len(call.tasks)
       /\ Len(call.tasks) > 1 => limiter.retryOn429
       /\ \A k \in 1..(Len(call.tasks) - 1) : k <= n /\ call.statuses[k] = 429
       /\ n > 0 /\ call.statuses[n] \notin {200, 429} =>
            call.pc = "failed" /\ Len(call.tasks) = n
       /\ n > 0 /\ call.statuses[n] = 429 /\ ~limiter.retryOn429 =>
            call.pc = "failed" /\ Len(call.tasks) = 1
       /\ n = limiter.retryMax + 1 /\ call.statuses[n] = 429 =>
            call.pc = "failed" /\ Len(call.tasks) = n
       /\ n > 0 /\ call.statuses[n] = 200 => call.pc = "done" /\ Len(call.tasks) = n

\* C12 witness: with retryMax = 1 a call was answered 429 twice and failed
\* after its second request.
C12_Witness ==
  \E c \in CallIds :
    /\ limiter.retryOn429 /\ limiter.retryMax = 1
    /\ calls[c].statuses = <<429, 429>>
    /\ calls[c].pc = "failed"
    /\ Requests(c) = 2

(***************************************************************************)
(* Properties of the search route (SearchSpec).                            *)
(***************************************************************************)
SearchAnswered == resp.route = "search" /\ resp.status # 0
OverflowMet == \E k \in 1..Len(resp.upstream) : resp.upstream[k].kind = "queue-overflow"
ProviderAnswered ==
  \E k \in 1..Len(resp.upstream) : resp.upstream[k].kind = "results"

C14_FallbackOnRendererFailure ==
  /\ fetcher.rendererFailed /\ ~cfg.fallbackToHttp =>
       fetcher.phase = "failed" /\ fetcher.error = "renderer error"
  /\ fetcher.rendererFailed /\ cfg.fallbackToHttp /\ fetcher.phase = "ok" =>
       fetcher.result.fallbackUsed /\ fetcher.result.backendUsed = "http-fetch"
  /\ fetcher.phase = "ok" /\ ~fetcher.rendererFailed => ~fetcher.result.fallbackUsed

\* C15: no redirect walk (of fetchViaHttp or of resolveFinalUrl) issues more
\* than maxRedirects + 1 requests or follows more than maxRedirects
\* redirects; a walk fails with "Too many redirects" only when each of its
\* maxRedirects + 1 requests was answered by a redirect, and a walk whose
\* chain has at most maxRedirects redirects ends with its final response.
C15_RedirectCap ==
  /\ fetcher.requests <= MaxRedirects + 1
  /\ fetcher.i <= MaxRedirects
  /\ fetcher.phase \in {"http", "resolve"} => fetcher.requests = fetcher.i
  /\ fetcher.phase = "failed" /\ fetcher.error = "Too many redirects" =>
       fetcher.requests = MaxRedirects + 1 /\ fetcher.i = MaxRedirects
  /\ fetcher.phase = "ok" /\ ~fetcher.result.rendered =>
       fetcher.requests = fetcher.i + 1

\* C15 witness: a walk failed with "Too many redirects" after maxRedirects + 1
\* requests.
C15_Witness ==
  /\ fetcher.phase = "failed"
  /\ fetcher.error = "Too many redirects"
  /\ fetcher.requests = MaxRedirects + 1

(***************************************************************************)
(* Further properties of the policy engine and of the pipeline (Spec).     *)
(***************************************************************************)
Profiles == {"baseline", "strict", "paranoid"}
PolicyScores == 0..(ProfileSettings("baseline").blockThreshold + 1)
DomainActions == {"block", "allow-bypass", "inspect"}
PolicyFlags == {<<>>, <<"instruction_override">>}

\* C16: with failClosed set and everything else fixed (profile, flags, domain
\* action, judge result), if decidePolicy blocks at a score it blocks at every
\* higher score; in the pipeline, under failClosed every inspected page whose
\* score reaches the medium threshold is blocked.  (decidePolicy depends on
\* its arguments alone, so it is evaluated in the initial states.)
C16_FailClosedMonotone ==
  /\ started = 0 /\ runtimeAllow = {} /\ runtimeBlock = {} =>
       \A profile \in Profiles, flags \in PolicyFlags, action \in DomainActions,
          judge \in JudgeResults \cup {NoJudge}, s1 \in PolicyScores, s2 \in PolicyScores :
         LET config == [cfg EXCEPT !.profile = profile, !.failClosed = TRUE]
             reason == IF action = "inspect" THEN "none" ELSE "Domain matched rule"
         IN  s1 < s2 /\ decidePolicy(config, s1, flags, action, reason, judge).decision = "block"
               => decidePolicy(config, s2, flags, action, reason, judge).decision = "block"
  /\ cfg.failClosed =>
       \A k \in 1..Len(fetchEvents) :
         fetchEvents[k].domainAction = "inspect"
           /\ fetchEvents[k].score >= Settings.mediumThreshold
           => fetchEvents[k].decision = "block"

\* C16 witness: under failClosed one page was blocked at the medium threshold
\* band and a later one, of a higher score, at the block threshold.
C16_Witness ==
  /\ cfg.failClosed
  /\ \E k \in 1..Len(fetchEvents), l \in 1..Len(fetchEvents) :
       /\ fetchEvents[k].reason = "Fail-closed: rule score >= medium threshold"
       /\ fetchEvents[l].reason = "Rule score >= block threshold"
       /\ fetchEvents[k].score < fetchEvents[l].score
       /\ fetchEvents[k].decision = "block" /\ fetchEvents[l].decision = "block"

BypassFlags == <<"domain_allowlist_bypass">>

\* C17: a host that matches an allowlist rule and no blocklist rule gets
\* allow-bypass from evaluateDomainPolicy, and on allow-bypass the decision is
\* allow with bypassed set, score 0 and flags exactly
\* [domain_allowlist_bypass], whatever score, flags or judge result are handed
\* to decidePolicy; in the pipeline a request for such a host is answered 200
\* with that decision whatever page was fetched, and the judge is not called.
C17_AllowlistBypass ==
  /\ started = 0 =>
       \A host \in PolicyHosts :
         \A allowlist \in {cfg.allowlistDomains, getEffectiveAllowlist(cfg.allowlistDomains),
                           getEffectiveAllowlist(cfg.allowlistDomains) \cup {host}} :
           \A blocklist \in {{}, cfg.blocklistDomains,
                             getEffectiveBlocklist(cfg.blocklistDomains)} :
             Matches(host, allowlist) /\ ~Matches(host, blocklist)
               => evaluateDomainPolicy(host, allowlist, blocklist).action = "allow-bypass"
  /\ started = 0 /\ runtimeAllow = {} /\ runtimeBlock = {} =>
       \A profile \in Profiles, flags \in PolicyFlags, score \in PolicyScores,
          judge \in JudgeResults \cup {NoJudge}, failClosed \in BOOLEAN :
         LET config == [cfg EXCEPT !.profile = profile, !.failClosed = failClosed]
             decision == decidePolicy(config, score, flags, "allow-bypass",
                                      "Domain matched allowlist rule", judge)
         IN  /\ decision.decision = "allow" /\ decision.bypassed
             /\ decision.score = 0 /\ decision.flags = BypassFlags
  /\ req.pc # "idle" /\ Matches(req.domain, cfg.allowlistDomains)
       /\ ~Matches(req.domain, cfg.blocklistDomains \cup req.blocklistAtStart)
       => req.domainAction = "allow-bypass" /\ req.pc = "fetching"
  /\ Processed /\ resp.status # 502 /\ Matches(resp.domain, cfg.allowlistDomains)
       /\ ~Matches(resp.domain, cfg.blocklistDomains \cup resp.blocklistAtStart)
       => /\ resp.status = 200 /\ resp.decision = "allow" /\ resp.bypassed
          /\ resp.score = 0 /\ resp.flags = BypassFlags
          /\ \A k \in EventsOfRun(resp.run) :
               /\ fetchEvents[k].decision = "allow" /\ fetchEvents[k].bypassed
               /\ fetchEvents[k].score = 0 /\ fetchEvents[k].flags = BypassFlags
               /\ fetchEvents[k].domainAction = "allow-bypass"

\* C17 witness: a request for the allowlisted host s fetched a page that the
\* scorer would put above the block threshold, and was answered with the
\* bypass decision.
C17_Witness ==
  /\ Processed
  /\ resp.domain = HostSafe
  /\ resp.fetched.page.score >= Settings.blockThreshold
  /\ resp.status = 200 /\ resp.bypassed /\ resp.flags = BypassFlags

JudgeFlags == {"llm_judge:benign", "llm_judge:suspicious", "llm_judge:malicious"}
HasJudgeFlag(flags) == \E k \in 1..Len(flags) : flags[k] \in JudgeFlags
InBand(score) == score >= Settings.mediumThreshold /\ score < Settings.blockThreshold

\* The decision that decidePolicy takes for an inspected page from its rule
\* score and flags alone, with no judge result.
ScoreAlone(page) ==
  decidePolicy(cfg, scorePromptInjection(page).score, scorePromptInjection(page).flags,
               "inspect", "none", NoJudge)

\* The FetchEvent and the response of a run agree with the decision d.
RunAgrees(d, page) ==
  LET allowedBy == classifyAllowedBy(d.decision, d.bypassed,
                                     scorePromptInjection(page).allowSignals)
  IN  /\ resp.status = IF d.decision = "block" THEN 422 ELSE 200
      /\ resp.decision = d.decision /\ resp.score = d.score /\ resp.flags = d.flags
      /\ resp.bypassed = d.bypassed
      /\ \A k \in EventsOfRun(resp.run) :
           /\ fetchEvents[k].decision = d.decision /\ fetchEvents[k].score = d.score
           /\ fetchEvents[k].flags = d.flags /\ fetchEvents[k].reason = d.reason
           /\ fetchEvents[k].allowedBy = allowedBy
           /\ fetchEvents[k].blockedBy =
                classifyBlockedBy(d.decision, d.reason, d.flags, "inspect")
      /\ EventsOfRun(resp.run) # {}

\* C18: the judge is being called only when judging is enabled, the domain
\* action is inspect and mediumThreshold <= score < blockThreshold; a run
\* whose score is outside that band ends with the decision taken from the
\* score alone, with no judge flag and without a judge call.
C18_JudgeOnlyInBand ==
  /\ req.pc = "judge" =>
       cfg.llmJudgeEnabled /\ req.domainAction = "inspect" /\ InBand(req.score)
  /\ Processed /\ resp.judgeCall # "not-called" =>
       cfg.llmJudgeEnabled /\ InBand(scorePromptInjection(resp.fetched.page).score)
  /\ Processed /\ resp.status # 502 /\ resp.fetcherCalled /\ ~resp.bypassed
       /\ ~InBand(scorePromptInjection(resp.fetched.page).score)
       => /\ resp.judgeCall = "not-called"
          /\ ~HasJudgeFlag(resp.flags)
          /\ RunAgrees(ScoreAlone(resp.fetched.page), resp.fetched.page)
          /\ resp.decision = IF resp.score >= Settings.blockThreshold
                                THEN "block" ELSE "allow"

\* C18 witness: with the judge enabled, a page scored at or above the block
\* threshold was blocked without a judge call.
C18_Witness ==
  /\ cfg.llmJudgeEnabled
  /\ Processed /\ resp.status = 422 /\ resp.fetcherCalled
  /\ resp.score >= Settings.blockThreshold
  /\ resp.judgeCall = "not-called"

\* C19: when the judge call fails the run still completes, with the decision,
\* the FetchEvent and the response that decidePolicy gives with no judge
\* result; the answer is 200 or 422, never an error.
C19_JudgeFailureIsNoJudge ==
  Processed /\ resp.judgeCall = "failed" =>
    /\ resp.status \in {200, 422}
    /\ ~HasJudgeFlag(resp.flags)
    /\ RunAgrees(ScoreAlone(resp.fetched.page), resp.fetched.page)
    /\ resp.decision = IF cfg.failClosed THEN "block" ELSE "allow"

\* C19 witness: the judge call failed on a page in the band and, failClosed
\* being off, the page was allowed.
C19_Witness ==
  /\ Processed /\ resp.judgeCall = "failed"
  /\ ~cfg.failClosed
  /\ resp.status = 200 /\ resp.decision = "allow"

\* C20: in every stored FetchEvent blockedBy is set exactly when the decision
\* is block, allowedBy is set only when the decision is allow, the two are
\* never both set, and bypassed implies allowedBy = domain-allowlist-bypass;
\* the two classifiers give this for every decision handed to them.
C20_Provenance ==
  /\ \A k \in 1..Len(fetchEvents) :
       LET e == fetchEvents[k]
       IN  /\ e.blockedBy # "null" <=> e.decision = "block"
           /\ e.allowedBy # "null" => e.decision = "allow"
           /\ ~(e.blockedBy # "null" /\ e.allowedBy # "null")
           /\ e.bypassed => e.allowedBy = "domain-allowlist-bypass"
  /\ started = 0 /\ runtimeAllow = {} /\ runtimeBlock = {} =>
       \A decision \in {"allow", "block"}, bypassed \in BOOLEAN, action \in DomainActions,
          flags \in PolicyFlags \cup {<<"llm_judge:benign">>, <<"domain_blocklist">>},
          reason \in {"none", "Rule score >= block threshold",
                      "Fail-closed: rule score >= medium threshold",
                      "LLM judge labeled malicious"},
          allowSignals \in {<<>>, <<"language_exception">>} :
         /\ classifyBlockedBy(decision, reason, flags, action) # "null"
               <=> decision = "block"
         /\ classifyAllowedBy(decision, bypassed, allowSignals) # "null"
               => decision = "allow"
         /\ decision = "allow" /\ bypassed
               => classifyAllowedBy(decision, bypassed, allowSignals)
                    = "domain-allowlist-bypass"

\* C20 witness: the table holds an event blocked by fail-closed or by the
\* judge and an event allowed by the allowlist bypass.
C20_Witness ==
  \E k \in 1..Len(fetchEvents), l \in 1..Len(fetchEvents) :
    /\ fetchEvents[k].decision = "block"
    /\ fetchEvents[k].blockedBy \in {"fail-closed", "llm-judge"}
    /\ fetchEvents[l].decision = "allow"
    /\ fetchEvents[l].bypassed
    /\ fetchEvents[l].allowedBy = "domain-allowlist-bypass"

(***************************************************************************)
(* Expiry of search results: the search and fetch routes while time passes *)
(* and the retention sweep runs.                                           *)
(***************************************************************************)
\* db.purgeExpiredData: expired search results go.  The other tables lose
\* rows older than retentionDays days, which no row becomes within MaxClock.
purgeExpiredData ==
  /\ searchResults' = {r \in searchResults : ~(r.expiresAt <= clock)}
  /\ UNCHANGED queueVars
  /\ UNCHANGED <<cfg, runtimeAllow, runtimeBlock, fetchEvents, flaggedPayloads, req,
                 fetcher, resp, search, started>>

ExpiryNext ==
  \/ handleSearchStart
  \/ \E outcome \in SearchOutcomes : handleSearchFinish(outcome)
  \/ \E resultId \in ResultIds : handleFetch(resultId)
  \/ \E outcome \in FetchOutcomes : FetchReturns(outcome)
  \/ \E outcome \in JudgeOutcomes : JudgeReturns(outcome)
  \/ Tick
  \/ purgeExpiredData

ExpirySpec == Init /\ [][ExpiryNext]_vars

\* The result was stored at some time and its lifetime is over (the sweep may
\* have deleted it since).
Expired(resultId) ==
  \A r \in searchResults : r.resultId = resultId => clock >= r.expiresAt

\* C21: a /v1/fetch request that arrives when now >= expiresAt of its
\* result_id (or when the record is gone) is answered 404 and starts no
\* pipeline run: no page fetch is begun and no FetchEvent or payload is
\* written; a request for an unexpired result is not answered 404.
C21_ExpiredIsUnreadable ==
  [][\A resultId \in ResultIds :
       handleFetch(resultId) =>
         IF Expired(resultId)
           THEN /\ resp'.status = 404
                /\ req' = IdleReq
                /\ fetcher' = fetcher
                /\ fetchEvents' = fetchEvents
                /\ flaggedPayloads' = flaggedPayloads
           ELSE resp'.status # 404]_vars

\* C21 witness: a fetch was answered 404 for a result that is still in the
\* table, past its expiry, and not yet swept.
C21_Witness ==
  /\ resp.route = "fetch"
  /\ resp.status = 404
  /\ \E r \in searchResults : r.resultId = resp.resultId /\ clock >= r.expiresAt

DashboardConfigs ==
  {[f \in DOMAIN c \cup {"enableDashboardWriteApi"} |->
      IF f = "enableDashboardWriteApi" THEN b ELSE c[f]] :
     c \in {k \in Configs : k.failClosed /\ k.llmJudgeEnabled /\ k.exposeSafeContentUrls},
     b \in BOOLEAN}

\* POST /v1/dashboard/allowlist: 400 on a payload the schema rejects (an empty
\* domain) or a domain the table rejects, else the entry is stored and
\* returned with the effective allowlist.
handleDashboardAllowlistPost(domain) ==
  LET normalized == stripWildcardPrefix(normalizeDomain(domain))
      stored == domain # <<>> /\ isValidDomainEntry(normalized)
  IN  /\ req.pc = "idle"
      /\ search.pc = "idle"
      /\ started < MaxRequests
      /\ started' = started + 1
      /\ runtimeAllow' = IF stored THEN runtimeAllow \cup {normalized} ELSE runtimeAllow
      /\ resp' = IF stored
                   THEN [NoResp EXCEPT !.route = "dashboard-allowlist",
                                       !.run = started + 1, !.status = 200,
                                       !.domain = normalized,
                                       !.results =
                                         {normalizeDomain(d) : d \in cfg.allowlistDomains}
                                           \cup runtimeAllow']
                   ELSE errorResponse("dashboard-allowlist", started + 1, 400)
      /\ UNCHANGED queueVars
      /\ UNCHANGED <<cfg, runtimeBlock, searchResults, fetchEvents, flaggedPayloads,
                     req, fetcher, search>>

DashboardInit ==
  /\ cfg \in DashboardConfigs
  /\ runtimeAllow = {}
  /\ runtimeBlock = {}
  /\ searchResults = {}
  /\ fetchEvents = <<>>
  /\ flaggedPayloads = <<>>
  /\ req = IdleReq
  /\ fetcher = IdleFetcher
  /\ resp = NoResp
  /\ search = IdleSearch
  /\ started = 0
  /\ limiter = [requestsPerSecond |-> 1, maxQueued |-> 1, retryOn429 |-> TRUE,
                retryMax |-> 1]
  /\ NewQueue

DashboardNext ==
  \/ \E domain \in AllowlistInputs \cup {<<>>} : handleDashboardAllowlistPost(domain)
  \/ \E targetUrl \in RequestUrls, maxChars \in WebFetchMaxChars :
       handleWebFetch(targetUrl, maxChars)
  \/ \E outcome \in FetchOutcomes : FetchReturns(outcome)
  \/ \E outcome \in JudgeOutcomes : JudgeReturns(outcome)

DashboardSpec == DashboardInit /\ [][DashboardNext]_vars

\* C23: with enableDashboardWriteApi unset a POST to the allowlist endpoint
\* is answered 403 and the runtime allowlist stays as it was; with it set, a
\* POST of a valid domain is answered 200 and the returned effective list
\* holds the domain.
C23_WriteGate ==
  /\ ~cfg.enableDashboardWriteApi =>
        /\ runtimeAllow = {}
        /\ resp.route = "dashboard-allowlist" => resp.status = 403
  /\ cfg.enableDashboardWriteApi /\ resp.route = "dashboard-allowlist"
        /\ resp.status = 200 => resp.domain \in resp.results

(***************************************************************************)
(* The delay before a 429 retry (ClientSpec).                              *)
(***************************************************************************)
\* Header values, in seconds: absent, zero, deltas, and epoch timestamps at
\* the start of the run and two seconds after it.
RetryHeaders ==
  [retryAfter : {NoHeader, 0, 1, 3},
   reset : {NoHeader, 0, 2, 2000000, EPOCH_SECONDS + 1, EPOCH_SECONDS + 3}]

\* C24: the delay before a retry is Retry-After seconds when that header is
\* present and positive; otherwise X-RateLimit-Reset, as seconds from now
\* when it is at most 10^9 and as seconds of the epoch otherwise; otherwise
\* 1000 ms; each plus a jitter of 0..249 ms, and never negative (an epoch
\* reset that lies in the past gives 0).  Stated of the function, at the
\* clock values met before the first search.
C24_RetryDelay ==
  (\A c \in CallIds : calls[c].pc = "idle") =>
  \A h \in RetryHeaders, jitter \in {0, 1, JITTER_MS - 1} :
    LET delay == computeRetryDelayMs([headers |-> h], jitter)
        base == IF h.retryAfter # NoHeader /\ h.retryAfter > 0
                  THEN h.retryAfter * 1000
                ELSE IF h.reset # NoHeader /\ h.reset > 0
                  THEN IF h.reset <= 1000000000
                         THEN h.reset * 1000
                         ELSE (h.reset - StartEpochSeconds) * 1000 - clock
                ELSE 1000
    IN  /\ delay >= 0
        /\ base + jitter >= 0 => delay = base + jitter
        /\ base >= 0 => delay - base \in 0..249

\* C24 witness: a call sleeps before its retry, for the delay its 429 asked
\* in X-RateLimit-Reset, at a moment when an epoch reset equal to the start
\* of the run already lies in the past.
C24_Witness ==
  /\ \E c \in CallIds :
       /\ calls[c].pc = "retry-sleep"
       /\ calls[c].wakeAt - clock \in 2000..(2000 + JITTER_MS - 1)
  /\ (EPOCH_SECONDS + 1 - StartEpochSeconds) * 1000 - clock + JITTER_MS - 1 < 0
  /\ computeRetryDelayMs([headers |-> [retryAfter |-> 0, reset |-> EPOCH_SECONDS + 1]],
                         JITTER_MS - 1) = 0

(***************************************************************************)
(* Truncation of the extracted content.                                    *)
(***************************************************************************)
\* Lengths of untruncated extracts and values of maxChars (the routes pass
\* 1..5,000,000 or the profile's maxExtractedChars), around one another.
ExtractLens == {0, 1, 19, 20, 21, 50}
MaxCharsInputs == {1, 20, 50}

\* C25: with maxChars = N the extracted content has at most N characters and
\* truncated is true exactly when the untruncated extract is longer than N;
\* with maxChars omitted the full extract is returned and truncated is
\* false.  Stated of extractContent and of every allow of both routes.
C25_Truncation ==
  /\ started = 0 /\ runtimeAllow = {} /\ runtimeBlock = {} =>
       \A len \in ExtractLens :
         LET page == [NoPage EXCEPT !.textLen = len]
         IN  /\ \A N \in MaxCharsInputs :
                   /\ extractContent(page, "text", N).content <= N
                   /\ extractContent(page, "text", N).truncated <=> len > N
             /\ extractContent(page, "text", NoMaxChars)
                   = [content |-> len, truncated |-> FALSE]
  /\ resp.route \in {"fetch", "web-fetch"} /\ resp.decision = "allow" =>
       \E N \in IF resp.route = "fetch"
                  THEN {Settings.maxExtractedChars} ELSE WebFetchMaxChars :
         IF N = NoMaxChars
           THEN resp.content = resp.fetched.page.textLen /\ ~resp.truncated
           ELSE /\ resp.content <= N
                /\ resp.truncated <=> resp.fetched.page.textLen > N

\* C25 witness: an allow of /v1/web-fetch whose content was cut to maxChars.
C25_Witness ==
  /\ resp.route = "web-fetch"
  /\ resp.decision = "allow"
  /\ resp.truncated
  /\ resp.content < resp.fetched.page.textLen
  /\ resp.content \in WebFetchMaxChars

(***************************************************************************)
(* services/obfuscation-normalizer.ts.  A text is a sequence of characters;*)
(* "U+200B" (zero width space), "U+0430" (Cyrillic a) and "U+FFFD" (any    *)
(* other code point) stand for one character each.                         *)
(***************************************************************************)
CONTROL_OR_INVISIBLE == {"U+200B"}
CONFUSABLES == {"U+0430"}
PunctuationChars == {".", "_", "-", ":", "/", "\\", "|"}
AsciiLetters ==
  {"a", "b", "c", "d", "e", "f", "g", "h", "i", "j", "k", "l", "m", "n", "o", "p", "q",
   "r", "s", "t", "u", "v", "w", "x", "y", "z", "S", "E", "D"}
DecDigits == {"0", "1", "2", "3", "4", "5", "6", "7", "8", "9"}
HexDigits == DecDigits \cup {"a", "b", "c", "d", "e", "f"}

Drop(text, n) == SubSeq(text, n + 1, Len(text))

RECURSIVE prefixLen(_, _)
\* the length of the longest prefix of `text` made of characters of `set`
prefixLen(text, set) ==
  IF text # <<>> /\ Head(text) \in set THEN 1 + prefixLen(Tail(text), set) ELSE 0

startsWithIgnoreCase(text, pattern) ==
  /\ Len(text) >= Len(pattern)
  /\ \A k \in 1..Len(pattern) : Lower(text[k]) = Lower(pattern[k])

RECURSIVE replaceAll(_, _, _)
\* text.replace(/pattern/gi, replacement): one scan from the left; what a
\* replacement puts into the output is not scanned again.
replaceAll(text, pattern, replacement) ==
  IF text = <<>> THEN <<>>
  ELSE IF startsWithIgnoreCase(text, pattern)
    THEN replacement \o replaceAll(Drop(text, Len(pattern)), pattern, replacement)
    ELSE <<Head(text)>> \o replaceAll(Tail(text), pattern, replacement)

digitValue(d) ==
  CASE d = "0" -> 0 [] d = "1" -> 1 [] d = "2" -> 2 [] d = "3" -> 3 [] d = "4" -> 4
    [] d = "5" -> 5 [] d = "6" -> 6 [] d = "7" -> 7 [] d = "8" -> 8 [] d = "9" -> 9
    [] d = "a" -> 10 [] d = "b" -> 11 [] d = "c" -> 12 [] d = "d" -> 13
    [] d = "e" -> 14 [] d = "f" -> 15

RECURSIVE parseInt(_, _)
parseInt(digits, radix) ==
  IF digits = <<>> THEN 0
  ELSE parseInt(SubSeq(digits, 1, Len(digits) - 1), radix) * radix
         + digitValue(digits[Len(digits)])

fromCodePoint(n) ==
  CASE n = 38 -> "&" [] n = 59 -> ";" [] n = 8203 -> "U+200B" [] OTHER -> "U+FFFD"

RECURSIVE decodeNumeric(_, _, _, _)
\* text.replace(/prefix(digits+);/g, fromCodePoint(parseInt(digits, radix)))
decodeNumeric(text, prefix, digits, radix) ==
  IF text = <<>> THEN <<>>
  ELSE LET rest == Drop(text, Len(prefix))
           n == prefixLen(rest, digits)
       IN  IF /\ startsWithIgnoreCase(text, prefix)
              /\ n >= 1
              /\ Len(rest) > n
              /\ rest[n + 1] = ";"
             THEN <<fromCodePoint(parseInt(SubSeq(rest, 1, n), radix))>>
                    \o decodeNumeric(Drop(rest, n + 1), prefix, digits, radix)
             ELSE <<Head(text)>> \o decodeNumeric(Tail(text), prefix, digits, radix)

decodeHtmlEntities(input) ==
  LET nbsp == replaceAll(input, <<"&", "n", "b", "s", "p", ";">>, <<" ">>)
      amp == replaceAll(nbsp, <<"&", "a", "m", "p", ";">>, <<"&">>)
      lt == replaceAll(amp, <<"&", "l", "t", ";">>, <<"<">>)
      gt == replaceAll(lt, <<"&", "g", "t", ";">>, <<">">>)
      quot == replaceAll(gt, <<"&", "q", "u", "o", "t", ";">>, <<"\"">>)
      apos == replaceAll(quot, <<"&", "#", "3", "9", ";">>, <<"'">>)
      hex == decodeNumeric(apos, <<"&", "#", "x">>, HexDigits, 16)
  IN  decodeNumeric(hex, <<"&", "#">>, DecDigits, 10)

mapConfusables(input) ==
  [k \in 1..Len(input) |-> IF input[k] = "U+0430" THEN "a" ELSE input[k]]

RECURSIVE replaceRuns(_, _, _, _)
\* text.replace(/[set]{minLen,}/g, replacement)
replaceRuns(text, set, minLen, replacement) ==
  IF text = <<>> THEN <<>>
  ELSE LET n == prefixLen(text, set)
       IN  IF n >= minLen
             THEN replacement \o replaceRuns(Drop(text, n), set, minLen, replacement)
             ELSE <<Head(text)>> \o replaceRuns(Tail(text), set, minLen, replacement)

RECURSIVE collapseRepeatedCharacters(_)
\* input.replace(/([a-zA-Z])\1{3,}/g, "$1$1")
collapseRepeatedCharacters(input) ==
  IF input = <<>> THEN <<>>
  ELSE LET n == prefixLen(input, {Head(input)})
       IN  IF Head(input) \in AsciiLetters /\ n >= 4
             THEN <<Head(input), Head(input)>> \o collapseRepeatedCharacters(Drop(input, n))
             ELSE <<Head(input)>> \o collapseRepeatedCharacters(Tail(input))

\* normalizedText of normalizeForSecurity; NFKC changes no character of the
\* texts considered.
normalizeForSecurity(input) ==
  LET stripped == SelectSeq(input, LAMBDA c : c \notin CONTROL_OR_INVISIBLE)
      decodedEntities == decodeHtmlEntities(stripped)
      confusableResult == mapConfusables(decodedEntities)
      collapsedPunctuation == replaceRuns(confusableResult, PunctuationChars, 2, <<" ">>)
      lower == toLowerCase(collapsedPunctuation)
      collapsedRepeats == collapseRepeatedCharacters(lower)
  IN  trim(replaceRuns(collapsedRepeats, {" "}, 2, <<" ">>))

\* The texts the normalizer is given: up to NormalizerMaxPieces pieces, one
\* after the other.
NormalizerMaxPieces == 2
NormalizerPieces ==
  {<<"&", "a", "m", "p", ";">>, <<"a", "m", "p", ";">>, <<"&", "l", "t", ";">>,
   <<"&", "#", "x", "2", "0", "0", "b", ";">>, <<"&", "#", "3", "8", ";">>,
   <<"E", "E", "E", "E", "E">>, <<"e">>, <<".", ".">>, <<" ">>, <<"U+0430">>,
   <<"U+200B">>}

RECURSIVE Texts(_)
Texts(n) ==
  IF n = 0 THEN {<<>>}
  ELSE Texts(n - 1) \cup {t \o piece : t \in Texts(n - 1), piece \in NormalizerPieces}

NormalizerInputs == Texts(NormalizerMaxPieces)

\* C26: normalization is idempotent: normalizing the normalized text of any
\* text T gives the same normalized text again.
C26_Idempotent ==
  started = 0 /\ runtimeAllow = {} /\ runtimeBlock = {} =>
    \A T \in NormalizerInputs :
      normalizeForSecurity(normalizeForSecurity(T)) = normalizeForSecurity(T)

(***************************************************************************)
(* The SSRF check of the two redirect walks (FetcherSpec).                 *)
(***************************************************************************)
\* C27: in the walk of fetchViaHttp and in the walk of resolveFinalUrl no
\* request is issued to a URL, the first or a redirect target, whose host
\* does not pass assertPublicHost on that hop: a walk that stands at a
\* non-public host issues no request in its next step, and no request of a
\* call has gone to a non-public host.
C27_CheckedBeforeContact ==
  [][/\ ~fetcher'.contactedUnchecked
     /\ fetcher.phase \in {"resolve", "http"} /\ fetcher.cur.host \in NonPublicHosts
          => /\ fetcher'.phase \in {"failed", "http"}
             /\ fetcher'.requests \in {0, fetcher.requests}
             /\ fetcher'.phase = "http" => fetcher'.cur = fetcher.url /\ fetcher'.i = 0]_vars

\* C27 witness: a walk was aborted at a redirect target on a non-public
\* host, after one request per earlier hop and none to the target.
C27_Witness ==
  /\ fetcher.phase = "failed"
  /\ fetcher.error = "non-public host"
  /\ fetcher.i >= 1
  /\ fetcher.cur # fetcher.url
  /\ fetcher.cur.host \in NonPublicHosts
  /\ fetcher.requests = fetcher.i

(***************************************************************************)
(* The returned content against the text that was scored.                  *)
(***************************************************************************)
\* C28: on every allow for an inspected (not bypassed) domain the content
\* returned by /v1/fetch or /v1/web-fetch does not extend beyond the text
\* given to the scorer, the first maxExtractedChars characters of the page
\* text.
C28_ContentWithinScoredText ==
  /\ resp.route \in {"fetch", "web-fetch"}
  /\ resp.decision = "allow"
  /\ ~resp.bypassed
  => resp.content <= sanitizeToText(resp.fetched.page, Settings.maxExtractedChars)

(***************************************************************************)
(* No task is lost by the queue (QueueFairSpec).                           *)
(***************************************************************************)
\* C29: while every dispatched task and every pacing sleep returns, every
\* task the queue accepted is dispatched and then settled, once: a task
\* waits, then runs, then is resolved or rejected and stays so; each task is
\* dispatched at most once; the rejection of one task leaves every other
\* task as it was, but for the next one being dispatched; and whenever a
\* task waits in the queue, at whatever moment it was enqueued, a pump is in
\* its loop, asleep or awaiting a task.
C29_NoTaskLost ==
  /\ \A t \in TaskIds : tasks[t] = "queued" ~> Started(t)
  /\ \A t \in TaskIds : Accepted(t) ~> Settled(t)
  /\ [][\A t \in TaskIds :
          /\ Settled(t) => tasks'[t] = tasks[t]
          /\ tasks[t] = "queued" => tasks'[t] \in {"queued", "running"}
          /\ tasks[t] = "running" => tasks'[t] \in {"running", "resolved", "rejected"}
          /\ tasks[t] = "running" /\ tasks'[t] = "rejected"
               => \A u \in TaskIds \ {t} :
                    \/ tasks'[u] = tasks[u]
                    \/ tasks[u] = "queued" /\ tasks'[u] = "running"]_vars
  /\ [](\A k \in 1..Len(dispatched), l \in 1..Len(dispatched) :
          dispatched[k].task = dispatched[l].task => k = l)
  /\ [](queue # <<>> => isRunning /\ pump.pc \in {"sleep", "task"})

\* C29 witness: the first task was rejected, the second one ran and was
\* resolved after it, and the third one, enqueued once the pump had left its
\* loop, waits in the queue of a new pump that sleeps.
C29_Witness ==
  /\ tasks[1] = "rejected"
  /\ tasks[2] = "resolved"
  /\ tasks[3] = "queued"
  /\ pump.pc = "sleep"

(***************************************************************************)
(* The pacing of the search client's upstream requests (ClientSpec).       *)
(***************************************************************************)
\* C30: every upstream request of the client, the first attempt of a search
\* and each 429 retry, is a task dispatched by the queue, and any two
\* upstream requests, of one search or of concurrent searches, start at
\* least 1000/rps ms apart.
C30_ClientPacing ==
  /\ \A k \in 1..Len(dispatched), l \in 1..Len(dispatched) :
       k < l => dispatched[l].at - dispatched[k].at
                  >= (l - k) * (1000 \div Max(1, limiter.requestsPerSecond))
  /\ \A c \in CallIds :
       LET requests == Requests(c)
       IN  /\ Len(calls[c].statuses) <= requests
           /\ requests <= calls[c].attempt
  /\ \A t \in TaskIds :
       /\ tasks[t] # "new" => \E c \in CallIds : \E k \in 1..Len(calls[c].tasks) :
                                 calls[c].tasks[k] = t
       /\ tasks[t] \in {"resolved", "rejected", "running"}
            <=> \E d \in 1..Len(dispatched) : dispatched[d].task = t

\* C30 witness: three upstream requests were made, two by a search that was
\* answered 429 and retried, one by a concurrent search, with the request of
\* the second search between the two attempts of the first.
C30_Witness ==
  /\ Len(dispatched) = 3
  /\ \E c \in CallIds, d \in CallIds :
       /\ c # d
       /\ Owner(dispatched[1].task) = c
       /\ Owner(dispatched[2].task) = d
       /\ Owner(dispatched[3].task) = c
       /\ calls[c].statuses[1] = 429
====
